---- MODULE Spec2Model ----
\* KnightDeliver backend: the ride lifecycle (routes/rides, raw SQL over pg) and
\* the order lifecycle (routes/orders and routes/admin, Prisma), modelled as
\* concurrent request handlers over one relational store.  A handler runs
\* without preemption between two awaits, so every action below is the code
\* of one handler from one store statement it awaits up to the next one.  The
\* first action of a handler is the arrival of the request together with its
\* first statement.
EXTENDS Integers, Sequences, FiniteSets, Bags, TLC

\* ---------------------------------------------------------------- bounds
MaxReq == 2      \* request handlers in flight at the same time
MaxRides == 2    \* rows the rides table may hold
MaxOrders == 1   \* rows the orders table may hold
MaxTrack == 3    \* orderTracking rows one order may have
MaxConn == 2     \* socket connections
MaxLoc == 2      \* location samples one order may have
MaxRatings == 2  \* rows the Prisma table Rating may hold
MaxCodes == 2    \* codes generateVerificationCode may return
MaxTime == 3     \* steps of the clock
MaxTx == 2       \* invocations of the transaction helper
MaxWrites == 2   \* statements of one callback
MaxClients == 1  \* clients of the pool (max: 20 in the source)
MaxChargers == 1 \* the value of AppSettings.maxChargers
MaxNotices == 2  \* events relayed by socket handlers, per order
MaxListed == 2   \* rows of the tables that the list routes read

\* ---------------------------------------------------------------- users
Users == {"u1", "u2", "u3"}
\* users.is_deliverer (requireDeliverer reads it); u1 is a plain customer
Deliverers == {"u2", "u3"}
\* the users who ask for rides; u2 is a deliverer who also rides
Riders == {"u1", "u2"}
NoUser == "none"   \* SQL NULL in a user column

VARIABLES
  rides,        \* table rides: sequence of rows, the id is the index
  stats,        \* table user_stats: one row per user
  req,          \* the handlers in flight (a bag): operation, caller, target, position
  resp,         \* the response sent by the last step, NoResp if it sent none
  rideEvents,   \* per ride, the events emitted to room ride:<id>: how many of
                \* each name, and the last one
  poolEvents,   \* per ride, the events about it emitted to room drivers
  orders,       \* table Order (Prisma): sequence of rows, the id is the index
  tracking,     \* table OrderTracking: per order, the statuses in creation order
  orderEvents,  \* per order, the statuses of the order-update events emitted to
                \* room order-<id>, in emit order
  newOrders,    \* the orders announced by a new-order event
  conns,        \* the socket connections: authenticated user and joined rooms
  locations,    \* table location_updates: per order, the reporters of the stored
                \* samples, in insertion order
  casts,        \* per order, the reporters of the location events broadcast to
                \* room order:<id>, in emit order
  inbox,        \* per socket, the pool notifications it was sent: <<event, id>>
  received,     \* per socket and topic, the number of events it was sent
  ratings,      \* table ratings (raw SQL): the committed rows, in commit order
  prismaRatings,\* table Rating (Prisma): the rows, in creation order
  userRows,     \* table users: the rating columns of every user
  accounts,     \* table User (Prisma): per email, the account columns
  verificationCodes, \* the Map verificationCodes: per email, the stored code
  resetCodes,   \* the Map resetCodes: per email, the stored code
  now,          \* the clock, in steps of the lifetime of a code
  issued,       \* the number of codes generated so far
  redeemed,     \* per kind and code, how many requests it has redeemed
  mailed,       \* the outcome of the last call of the mail service
  listing,      \* the ids in the body of the last list response, in order
  clients,      \* the pg pool: the number of idle clients
  txns,         \* the invocations of transaction(): position, what the
                \* callback did, the error in hand, the statements issued
  committed,    \* per invocation, the writes of its callback that the store holds
  notices,      \* per order, the events that socket handlers relayed to room
                \* order:<id>: name, reported status, sending user
  profiles,     \* table User (Prisma): per user, the charger columns
  settings      \* table AppSettings: the row 'settings'

rideVars == <<rides, stats, rideEvents, poolEvents>>
orderVars == <<orders, tracking, orderEvents, newOrders>>
liveVars == <<conns, locations, casts, inbox, received>>
ratingVars == <<ratings, prismaRatings, userRows>>
authVars == <<accounts, verificationCodes, resetCodes, now, issued, redeemed, mailed>>
listVars == <<listing>>
dbVars == <<clients, txns, committed>>
relayVars == <<notices>>
chargerVars == <<profiles, settings>>
serviceVars == <<authVars, listVars, dbVars, relayVars, chargerVars>>
tables == <<rideVars, orderVars, liveVars, ratingVars, dbVars, relayVars, chargerVars>>
\* all but the accounts and codes
restOfStore == <<tables, listVars>>
vars == <<rides, stats, req, resp, rideEvents, poolEvents,
          orders, tracking, orderEvents, newOrders,
          conns, locations, casts, inbox, received, ratings, prismaRatings, userRows,
          accounts, verificationCodes, resetCodes, now, issued, redeemed, mailed,
          listing, clients, txns, committed, notices, profiles, settings>>

RideIds == 1..MaxRides
OrderIds == 1..MaxOrders
Conns == 1..MaxConn

\* -------------------------------------------------------- ride statuses
\* CHECK (status IN (...)) of table rides
RideStatuses == {"pending", "accepted", "arriving", "in_progress", "completed", "cancelled"}
\* status IN ('pending','accepted','arriving','in_progress'): the rider's active ride
RiderActive == {"pending", "accepted", "arriving", "in_progress"}
\* status IN ('accepted','arriving','in_progress'): the driver's active ride
DriverActive == {"accepted", "arriving", "in_progress"}
\* ['completed','cancelled'].includes(ride.status) in the cancel handler
CancelRefused == {"completed", "cancelled"}
\* ride.status !== 'accepted' in the arriving handler
ArrivingFrom == {"accepted"}
\* ['accepted','arriving'].includes(ride.status) in the start handler
StartFrom == {"accepted", "arriving"}
\* ride.status !== 'in_progress' in the complete handler
CompleteFrom == {"in_progress"}

\* DEFAULT 0 of rides.ride_fee; the INSERT of the request handler does not set it
DefaultRideFee == 0
\* the fallback of  parseFloat(ride.ride_fee) || 3
FallbackFee == 3

\* const rideFee = parseFloat(ride.ride_fee) || 3  (0 is falsy)
RideFeeOf(row) == IF row.ride_fee = 0 THEN FallbackFee ELSE row.ride_fee

\* INSERT INTO rides (rider_id, ...) with the column defaults.  A timestamp
\* column holds the number of times CURRENT_TIMESTAMP was written to it
\* (0 is NULL): every write stores a new instant.
NewRide(u) ==
  [status |-> "pending", rider_id |-> u, driver_id |-> NoUser,
   accepted_at |-> 0, started_at |-> 0, completed_at |-> 0,
   cancelled_by |-> NoUser, ride_fee |-> DefaultRideFee]

HasRide(r) == r \in 1..Len(rides)

\* SELECT id FROM rides WHERE rider_id = $1 AND status IN (pending, ...)
ExistingRide(u) ==
  \E r \in 1..Len(rides) : rides[r].rider_id = u /\ rides[r].status \in RiderActive

\* SELECT id FROM rides WHERE driver_id = $1 AND status IN (accepted, ...)
ActiveRide(d) ==
  \E r \in 1..Len(rides) : rides[r].driver_id = d /\ rides[r].status \in DriverActive

\* SELECT * FROM rides WHERE id = $1 AND driver_id = $2
AssignedRide(r, d) == HasRide(r) /\ rides[r].driver_id = d

\* ---------------------------------------------------------- the handlers
InFlight == BagToSet(req)
Handler(op, u, id, pc) == [op |-> op, user |-> u, id |-> id, pc |-> pc, arg |-> "none"]
\* a handler that carries the status of its request body
HandlerWith(op, u, id, pc, arg) == [op |-> op, user |-> u, id |-> id, pc |-> pc, arg |-> arg]
OneOf(h) == SetToBag({h})

NoResp == [op |-> "none", user |-> NoUser, id |-> 0, res |-> "none"]
Answer(op, u, id, res) == [op |-> op, user |-> u, id |-> id, res |-> res]

\* a request arrives while fewer than MaxReq handlers are in flight
Arrives == BagCardinality(req) < MaxReq
\* the request is answered by its first statement
Reject(op, u, id, res) == req' = req /\ resp' = Answer(op, u, id, res)
\* the handler suspends at its next statement
Enter(op, u, id, pc) == req' = req (+) OneOf(Handler(op, u, id, pc)) /\ resp' = NoResp
Goto(h, pc) == req' = (req (-) OneOf(h)) (+) OneOf([h EXCEPT !.pc = pc]) /\ resp' = NoResp
Finish(h, res) == req' = req (-) OneOf(h) /\ resp' = Answer(h.op, h.user, h.id, res)

\* A transaction holds the lock of a rides row from the statement that locked
\* it (SELECT ... FOR UPDATE, UPDATE) until its COMMIT or ROLLBACK.
RideLocked(r) == \E h \in InFlight : h.id = r /\ h.pc \in {"acc_update", "cmp_stats"}

\* `order:${orderId}`: joined by subscribe_order, addressed by the location
\* events
OrderTopic(o) == <<"order:", o>>
\* `order-${orderId}`: addressed by the order-update events of the order routes
OrderUpdateRoom(o) == <<"order-", o>>
\* `ride:${rideId}`: joined by subscribe_ride, addressed by the ride routes
RideTopic(r) == <<"ride:", r>>
\* the topics of the orders and rides
Topics == {OrderTopic(o) : o \in OrderIds} \cup {RideTopic(r) : r \in RideIds}
\* an emit that reaches every connected socket, whatever rooms it is in
PublishToConnected(room) ==
  received' = [c \in Conns |->
                 IF conns[c].open THEN [received[c] EXCEPT ![room] = @ + 1] ELSE received[c]]
\* io.to(room).emit(...): every socket that is in the room is sent the event
Publish(room) ==
  received' = [c \in Conns |->
                 IF room \in conns[c].rooms THEN [received[c] EXCEPT ![room] = @ + 1]
                                            ELSE received[c]]

\* the events the ride routes emit to room ride:<id>
RideEventNames ==
  {"ride_accepted", "driver_arriving", "ride_started", "ride_completed", "ride_cancelled"}
NoEvents == [n |-> [e \in RideEventNames |-> 0], last |-> "none"]

\* io.to(`ride:${rideId}`).emit(name, ...)
Emit(r, name) ==
  /\ rideEvents' = [rideEvents EXCEPT ![r] = [n |-> [@.n EXCEPT ![name] = @ + 1], last |-> name]]
  /\ Publish(RideTopic(r))
\* io.to('drivers').emit(name, { rideId })
EmitPool(r, name) == poolEvents' = [poolEvents EXCEPT ![r] = Append(@, name)]

\* the rooms 'deliverers' and 'drivers', and the room `user:${userId}`
DeliverersRoom == <<"deliverers", 0>>
DriversRoom == <<"drivers", 0>>
UserRoom(u) == <<"user:", u>>
\* the sockets that are connected: io.emit reaches each of them
Connected == {c \in Conns : conns[c].open}
\* io.to(room).emit reaches the sockets that are in the room
InRoom(room) == {c \in Conns : room \in conns[c].rooms}
\* the sockets of set to get notification <<name, id>>
Deliver(to, name, id) ==
  inbox' = [c \in Conns |-> IF c \in to THEN inbox[c] \cup {<<name, id>>} ELSE inbox[c]]

\* a socket that is not connected
NoConn == [open |-> FALSE, user |-> NoUser, rooms |-> {}]
\* no socket is connected, no location sample is stored or broadcast
IdleLive ==
  /\ conns = [c \in Conns |-> NoConn]
  /\ locations = [o \in OrderIds |-> <<>>]
  /\ casts = [o \in OrderIds |-> <<>>]
  /\ inbox = [c \in Conns |-> {}]
  /\ received = [c \in Conns |-> [t \in Topics |-> 0]]
\* users.avg_rating DEFAULT 0, users.total_ratings DEFAULT 0; the Prisma
\* column delivererRating is held in tenths
\* the addresses that register
Emails == {"a@ucf.edu"}
\* the codes generateVerificationCode returns: the n-th call returns n (two
\* calls are taken never to return the same six digits)
Codes == 1..MaxCodes
CodeKinds == {"verify", "reset"}
\* expiresAt: new Date(Date.now() + 10 * 60 * 1000), one step of the clock
CodeTtl == 1
\* no entry of a Map
NoCode == [code |-> 0, expiresAt |-> 0]
NoAccount == [exists |-> FALSE, isVerified |-> FALSE, passwordHash |-> 0]
\* no user is registered, no code is stored, no mail was sent
NoAuth ==
  /\ accounts = [e \in Emails |-> NoAccount]
  /\ verificationCodes = [e \in Emails |-> NoCode]
  /\ resetCodes = [e \in Emails |-> NoCode]
  /\ now = 0
  /\ issued = 0
  /\ redeemed = [k \in CodeKinds |-> [c \in Codes |-> 0]]
  /\ mailed = "none"
Txs == 1..MaxTx
\* an invocation that has not been made
NoTx == [pc |-> "idle", writes |-> 0, cb |-> "none", err |-> "none",
         out |-> "none", rollbacks |-> 0, releases |-> 0]
NoDb ==
  /\ clients = MaxClients
  /\ txns = [t \in Txs |-> NoTx]
  /\ committed = [t \in Txs |-> 0]

\* the charger columns of the deliverers and of the other users, and a cap
\* with manual review
NoChargers ==
  /\ profiles = [u \in Users |->
                   [isDeliverer |-> u \in Deliverers, isVerified |-> u \in Deliverers,
                    chargerStatus |-> IF u \in Deliverers THEN "approved" ELSE "none"]]
  /\ settings = [maxChargers |-> MaxChargers, autoApprove |-> FALSE]

\* no code, no list, no transaction, no relayed event
QuietServices ==
  /\ NoAuth
  /\ listing = <<>>
  /\ NoDb
  /\ notices = [o \in OrderIds |-> <<>>]

NoService ==
  /\ QuietServices
  /\ NoChargers

NoRatings ==
  /\ ratings = <<>>
  /\ prismaRatings = <<>>
  /\ userRows = [u \in Users |-> [avg_rating |-> 0, total_ratings |-> 0, delivererRating |-> 0]]

Init ==
  /\ IdleLive
  /\ NoRatings
  /\ NoService
  /\ rides = <<>>
  /\ stats = [u \in Users |-> [total_rides_requested |-> 0, total_rides_given |-> 0,
                               total_earnings |-> 0]]
  /\ req = EmptyBag
  /\ resp = NoResp
  /\ rideEvents = [r \in RideIds |-> NoEvents]
  /\ poolEvents = [r \in RideIds |-> <<>>]
  /\ orders = <<>>
  /\ tracking = [o \in OrderIds |-> <<>>]
  /\ orderEvents = [o \in OrderIds |-> <<>>]
  /\ newOrders = <<>>

\* the handlers that may still insert a row (the table holds MaxRides rows)
Inserting == {h \in InFlight : h.pc = "req_insert"}

\* ---- POST /rides: the check for an active ride of the rider
Request(u) ==
  /\ Arrives
  /\ Len(rides) + Cardinality(Inserting) < MaxRides
  /\ IF ExistingRide(u) THEN Reject("request", u, 0, "400_active")
                        ELSE Enter("request", u, 0, "req_insert")
  /\ UNCHANGED <<serviceVars, rideVars, orderVars, liveVars, ratingVars>>

\* INSERT INTO rides ... RETURNING *
RequestInsert(h) ==
  /\ h.pc = "req_insert"
  /\ rides' = Append(rides, NewRide(h.user))
  /\ req' = (req (-) OneOf(h)) (+) OneOf([h EXCEPT !.pc = "req_stats", !.id = Len(rides) + 1])
  /\ resp' = NoResp
  /\ UNCHANGED <<serviceVars, stats, rideEvents, poolEvents, orderVars, liveVars, ratingVars>>

\* UPDATE user_stats SET total_rides_requested = total_rides_requested + 1;
\* emit new_ride to room drivers; 201
RequestStats(h) ==
  /\ h.pc = "req_stats"
  /\ stats' = [stats EXCEPT ![h.user].total_rides_requested = @ + 1]
  /\ EmitPool(h.id, "new_ride")
  /\ Deliver(InRoom(DriversRoom), "new_ride", h.id)
  /\ Finish(h, "ok")
  /\ UNCHANGED <<serviceVars, rides, rideEvents, orderVars, conns, locations, casts, received, ratingVars>>

\* ---- POST /rides/:rideId/accept: requireDeliverer, the check for an active
\* ride of the driver
Accept(u, r) ==
  /\ Arrives
  /\ IF u \notin Deliverers THEN Reject("accept", u, r, "403_deliverer")
     ELSE IF ActiveRide(u) THEN Reject("accept", u, r, "400_active")
     ELSE Enter("accept", u, r, "acc_select")
  /\ UNCHANGED <<serviceVars, rideVars, orderVars, liveVars, ratingVars>>

\* AcceptSelect as a plain SELECT * FROM rides WHERE id = $1: it neither
\* filters on the status nor waits for the row lock
AcceptSelectUnguarded(h) ==
  /\ h.pc = "acc_select"
  /\ IF HasRide(h.id) THEN Goto(h, "acc_update") ELSE Finish(h, "ride_unavailable")
  /\ UNCHANGED <<serviceVars, rideVars, orderVars, liveVars, ratingVars>>

\* BEGIN; SELECT * FROM rides WHERE id = $1 AND status = 'pending' FOR UPDATE.
\* The statement waits while another transaction holds the row lock and then
\* sees the row as that transaction committed it.  No row: the callback
\* throws 'Ride is no longer available', the helper rolls back and rethrows.
AcceptSelect(h) ==
  /\ h.pc = "acc_select"
  /\ ~RideLocked(h.id)
  /\ IF HasRide(h.id) /\ rides[h.id].status = "pending"
       THEN Goto(h, "acc_update")
       ELSE Finish(h, "ride_unavailable")
  /\ UNCHANGED <<serviceVars, rideVars, orderVars, liveVars, ratingVars>>

\* UPDATE rides SET driver_id = $1, status = 'accepted', accepted_at = now
\* WHERE id = $2; COMMIT, which makes the write visible and releases the lock
AcceptCommit(h) ==
  /\ h.pc = "acc_update"
  /\ rides' = [rides EXCEPT ![h.id].driver_id = h.user,
                            ![h.id].status = "accepted",
                            ![h.id].accepted_at = @ + 1]
  /\ Goto(h, "acc_emit")
  /\ UNCHANGED <<serviceVars, stats, rideEvents, poolEvents, orderVars, liveVars, ratingVars>>

\* SELECT the rider; emit ride_accepted to ride:<id> and ride_taken to drivers
AcceptEmit(h) ==
  /\ h.pc = "acc_emit"
  /\ Emit(h.id, "ride_accepted")
  /\ EmitPool(h.id, "ride_taken")
  /\ Finish(h, "ok")
  /\ UNCHANGED <<serviceVars, rides, stats, orderVars, conns, locations, casts, inbox, ratingVars>>

\* AdvanceRead without the check of ride.status
AdvanceReadAnyStatus(op, u, r, from, pc) ==
  /\ Arrives
  /\ IF u \notin Deliverers THEN Reject(op, u, r, "403_deliverer")
     ELSE IF ~AssignedRide(r, u) THEN Reject(op, u, r, "404_not_assigned")
     ELSE Enter(op, u, r, pc)
  /\ UNCHANGED <<serviceVars, rideVars, orderVars, liveVars, ratingVars>>

\* ---- requireDeliverer, SELECT * FROM rides WHERE id = $1 AND driver_id = $2
\* and the status check shared by arriving, start and complete
AdvanceRead(op, u, r, from, pc) ==
  /\ Arrives
  /\ IF u \notin Deliverers THEN Reject(op, u, r, "403_deliverer")
     ELSE IF ~AssignedRide(r, u) THEN Reject(op, u, r, "404_not_assigned")
     ELSE IF rides[r].status \notin from THEN Reject(op, u, r, "400_status")
     ELSE Enter(op, u, r, pc)
  /\ UNCHANGED <<serviceVars, rideVars, orderVars, liveVars, ratingVars>>

\* ---- POST /rides/:rideId/arriving
Arriving(u, r) == AdvanceRead("arriving", u, r, ArrivingFrom, "arr_write")

\* UPDATE rides SET status = 'arriving' WHERE id = $1; emit driver_arriving
ArrivingWrite(h) ==
  /\ h.pc = "arr_write"
  /\ ~RideLocked(h.id)
  /\ rides' = [rides EXCEPT ![h.id].status = "arriving"]
  /\ Emit(h.id, "driver_arriving")
  /\ Finish(h, "ok")
  /\ UNCHANGED <<serviceVars, stats, poolEvents, orderVars, conns, locations, casts, inbox, ratingVars>>

\* ---- POST /rides/:rideId/start
Start(u, r) == AdvanceRead("start", u, r, StartFrom, "sta_write")

\* UPDATE rides SET status = 'in_progress', started_at = now WHERE id = $1;
\* emit ride_started
StartWrite(h) ==
  /\ h.pc = "sta_write"
  /\ ~RideLocked(h.id)
  /\ rides' = [rides EXCEPT ![h.id].status = "in_progress", ![h.id].started_at = @ + 1]
  /\ Emit(h.id, "ride_started")
  /\ Finish(h, "ok")
  /\ UNCHANGED <<serviceVars, stats, poolEvents, orderVars, conns, locations, casts, inbox, ratingVars>>

\* ---- POST /rides/:rideId/complete
Complete(u, r) == AdvanceRead("complete", u, r, CompleteFrom, "cmp_ride")

\* the UPDATE of rides run outside a transaction: its write is visible at once
CompleteRideAutocommit(h) ==
  /\ h.pc = "cmp_ride"
  /\ ~RideLocked(h.id)
  /\ rides' = [rides EXCEPT ![h.id].status = "completed", ![h.id].completed_at = @ + 1]
  /\ Goto(h, "cmp_stats")
  /\ UNCHANGED <<serviceVars, stats, rideEvents, poolEvents, orderVars, liveVars, ratingVars>>

\* BEGIN; UPDATE rides SET status = 'completed', completed_at = now WHERE id = $2:
\* the transaction takes the row lock, its write is visible at COMMIT
CompleteRide(h) ==
  /\ h.pc = "cmp_ride"
  /\ ~RideLocked(h.id)
  /\ Goto(h, "cmp_stats")
  /\ UNCHANGED <<serviceVars, rideVars, orderVars, liveVars, ratingVars>>

\* UPDATE user_stats SET total_rides_given = total_rides_given + 1,
\* total_earnings = total_earnings + $1 WHERE user_id = $2; COMMIT: both
\* writes become visible together and the row locks are released (the lock of
\* the user_stats row is taken and released within this step); then emit
\* ride_completed and answer with earnings = rideFee
CompleteCommit(h) ==
  /\ h.pc = "cmp_stats"
  /\ rides' = [rides EXCEPT ![h.id].status = "completed", ![h.id].completed_at = @ + 1]
  /\ stats' = [stats EXCEPT ![h.user].total_rides_given = @ + 1,
                            ![h.user].total_earnings = @ + RideFeeOf(rides[h.id])]
  /\ Emit(h.id, "ride_completed")
  /\ Finish(h, "ok")
  /\ UNCHANGED <<serviceVars, poolEvents, orderVars, conns, locations, casts, inbox, ratingVars>>

\* A statement of the transaction throws (the store refuses it, the
\* connection is lost): catch { ROLLBACK; throw }.  Nothing the transaction
\* wrote becomes visible, its locks are released, and the error leaves the
\* handler through asyncHandler.
CompleteRollback(h) ==
  /\ h.pc \in {"cmp_ride", "cmp_stats"}
  /\ Finish(h, "500_error")
  /\ UNCHANGED <<serviceVars, rideVars, orderVars, liveVars, ratingVars>>

\* ---- DELETE /rides/:rideId: SELECT * FROM rides WHERE id = $1 and the checks
Cancel(u, r) ==
  /\ Arrives
  /\ IF ~HasRide(r) THEN Reject("cancel", u, r, "404_not_found")
     ELSE IF rides[r].rider_id # u /\ rides[r].driver_id # u
       THEN Reject("cancel", u, r, "403_not_party")
     ELSE IF rides[r].status \in CancelRefused THEN Reject("cancel", u, r, "400_status")
     ELSE Enter("cancel", u, r, "can_write")
  /\ UNCHANGED <<serviceVars, rideVars, orderVars, liveVars, ratingVars>>

\* UPDATE rides SET status = 'cancelled', cancelled_reason = $1, cancelled_by = $2
\* WHERE id = $3; emit ride_cancelled
CancelWrite(h) ==
  /\ h.pc = "can_write"
  /\ ~RideLocked(h.id)
  /\ rides' = [rides EXCEPT ![h.id].status = "cancelled", ![h.id].cancelled_by = h.user]
  /\ Emit(h.id, "ride_cancelled")
  /\ Finish(h, "ok")
  /\ UNCHANGED <<serviceVars, stats, poolEvents, orderVars, conns, locations, casts, inbox, ratingVars>>

\* The dispatch of rides: riders ask for rides, drivers accept them.
NextDispatch ==
  \/ \E u \in Riders : Request(u)
  \/ \E u \in Users, r \in RideIds : Accept(u, r)
  \/ \E h \in InFlight :
       \/ RequestInsert(h) \/ RequestStats(h)
       \/ AcceptSelect(h) \/ AcceptCommit(h) \/ AcceptEmit(h)

SpecDispatch == Init /\ [][NextDispatch]_vars

\* The life of one ride, from the state in which POST /rides has just
\* answered its rider: accept, arriving, start, complete and cancel.
InitRide ==
  \E u \in {"u1"} :
    /\ IdleLive
    /\ NoRatings
    /\ NoService
    /\ rides = <<NewRide(u)>>
    /\ stats = [v \in Users |-> [total_rides_requested |-> IF v = u THEN 1 ELSE 0,
                                 total_rides_given |-> 0, total_earnings |-> 0]]
    /\ req = EmptyBag
    /\ resp = Answer("request", u, 1, "ok")
    /\ rideEvents = [r \in RideIds |-> NoEvents]
    /\ poolEvents = [r \in RideIds |-> IF r = 1 THEN <<"new_ride">> ELSE <<>>]
    /\ orders = <<>>
    /\ tracking = [o \in OrderIds |-> <<>>]
    /\ orderEvents = [o \in OrderIds |-> <<>>]
    /\ newOrders = <<>>

NextRide ==
  \/ \E u \in Users, r \in 1..Len(rides) :
       Accept(u, r) \/ Arriving(u, r) \/ Start(u, r) \/ Complete(u, r) \/ Cancel(u, r)
  \/ \E h \in InFlight :
       \/ AcceptSelect(h) \/ AcceptCommit(h) \/ AcceptEmit(h)
       \/ ArrivingWrite(h) \/ StartWrite(h)
       \/ CompleteRide(h) \/ CompleteCommit(h) \/ CompleteRollback(h)
       \/ CancelWrite(h)

SpecRide == InitRide /\ [][NextRide]_vars

\* ------------------------------------------------------------------------
\* Orders (routes/orders.ts, routes/admin.ts, Prisma)
\* ------------------------------------------------------------------------
\* the values of the status enum that the routes use
OrderStatuses ==
  {"PENDING", "ACCEPTED", "PICKING_UP", "PICKED_UP", "DELIVERING", "DELIVERED", "CANCELLED"}

\* prisma.order.create({ data: { ...data, customerId } }); pickedUpAt and
\* deliveredAt hold the number of times new Date() was written (0 is null)
NewOrder(u) ==
  [status |-> "PENDING", customerId |-> u, delivererId |-> NoUser,
   pickedUpAt |-> 0, deliveredAt |-> 0]

HasOrder(o) == o \in 1..Len(orders)

\* data: { status, ...(status === 'PICKED_UP' && { pickedUpAt: new Date() }),
\*         ...(status === 'DELIVERED' && { deliveredAt: new Date() }) }
WithStatus(row, t) ==
  [row EXCEPT !.status = t,
              !.pickedUpAt = IF t = "PICKED_UP" THEN @ + 1 ELSE @,
              !.deliveredAt = IF t = "DELIVERED" THEN @ + 1 ELSE @]

\* prisma.orderTracking.create({ data: { orderId, status, ... } }), then
\* io.to(`order-${orderId}`).emit('order-update', { status, ... })
TrackAndNotify(o, t) ==
  /\ tracking' = [tracking EXCEPT ![o] = Append(@, t)]
  /\ orderEvents' = [orderEvents EXCEPT ![o] = Append(@, t)]

\* the handlers in flight that will add an orderTracking row to order o
Tracking(o) == {h \in InFlight : h.id = o /\ h.pc \in
                  {"oc_track", "an_track", "oa_update", "oa_track", "os_track", "ap_update", "ap_track"}}
\* order o has room for the orderTracking row of one more request
Room(o) == Len(tracking[o]) + BagCardinality([h \in Tracking(o) |-> req[h]]) < MaxTrack

\* ---- POST /orders: prisma.order.create
Create(u) ==
  /\ Arrives
  /\ Len(orders) < MaxOrders
  /\ orders' = Append(orders, NewOrder(u))
  /\ Enter("create", u, Len(orders) + 1, "oc_track")
  /\ UNCHANGED <<serviceVars, rideVars, liveVars, ratingVars, tracking, orderEvents, newOrders>>

\* orderTracking.create PENDING; io.emit('new-order'); 201
CreateTrack(h) ==
  /\ h.pc = "oc_track"
  /\ tracking' = [tracking EXCEPT ![h.id] = Append(@, "PENDING")]
  /\ newOrders' = Append(newOrders, h.id)
  /\ Deliver(Connected, "new-order", h.id)
  /\ Finish(h, "ok")
  /\ UNCHANGED <<serviceVars, rideVars, conns, locations, casts, received, ratingVars, orders, orderEvents>>

\* the user with email anonymous@knightdeliver.com
AnonUser == "anon"

\* ---- POST /orders/anonymous (no authMiddleware): find or create the
\* anonymous user, prisma.order.create with customerId: anonUser.id
CreateAnonymous ==
  /\ Arrives
  /\ Len(orders) < MaxOrders
  /\ orders' = Append(orders, NewOrder(AnonUser))
  /\ Enter("create_anonymous", AnonUser, Len(orders) + 1, "an_track")
  /\ UNCHANGED <<serviceVars, rideVars, liveVars, ratingVars, tracking, orderEvents, newOrders>>

\* orderTracking.create PENDING; io.to('deliverers').emit('new-order'); 201
CreateAnonymousTrack(h) ==
  /\ h.pc = "an_track"
  /\ tracking' = [tracking EXCEPT ![h.id] = Append(@, "PENDING")]
  /\ newOrders' = Append(newOrders, h.id)
  /\ Deliver(InRoom(DeliverersRoom), "new-order", h.id)
  /\ Finish(h, "ok")
  /\ UNCHANGED <<serviceVars, rideVars, conns, locations, casts, received, ratingVars, orders, orderEvents>>

\* ---- POST /orders/:id/accept: prisma.user.findUnique, user?.isDeliverer
OrderAccept(u, o) ==
  /\ Arrives
  /\ Room(o)
  /\ IF u \notin Deliverers THEN Reject("order_accept", u, o, "403_deliverer")
                            ELSE Enter("order_accept", u, o, "oa_update")
  /\ UNCHANGED <<serviceVars, rideVars, orderVars, liveVars, ratingVars>>

\* the update of accept without status: 'PENDING' in its where
OrderAcceptUpdateAnyStatus(h) ==
  /\ h.pc = "oa_update"
  /\ IF HasOrder(h.id)
       THEN /\ orders' = [orders EXCEPT ![h.id].status = "ACCEPTED",
                                        ![h.id].delivererId = h.user]
            /\ Goto(h, "oa_track")
       ELSE /\ Finish(h, "error_no_record")
            /\ UNCHANGED orders
  /\ UNCHANGED <<serviceVars, rideVars, liveVars, ratingVars, tracking, orderEvents, newOrders>>

\* prisma.order.update({ where: { id, status: 'PENDING' }, data: { status:
\* 'ACCEPTED', delivererId } }): one conditional UPDATE; when no row matches
\* it throws and the handler ends in next(error)
OrderAcceptUpdate(h) ==
  /\ h.pc = "oa_update"
  /\ IF HasOrder(h.id) /\ orders[h.id].status = "PENDING"
       THEN /\ orders' = [orders EXCEPT ![h.id].status = "ACCEPTED",
                                        ![h.id].delivererId = h.user]
            /\ Goto(h, "oa_track")
       ELSE /\ Finish(h, "error_no_record")
            /\ UNCHANGED orders
  /\ UNCHANGED <<serviceVars, rideVars, liveVars, ratingVars, tracking, orderEvents, newOrders>>

\* orderTracking.create ACCEPTED; emit order-update; 200
OrderAcceptTrack(h) ==
  /\ h.pc = "oa_track"
  /\ TrackAndNotify(h.id, "ACCEPTED")
  /\ Finish(h, "ok")
  /\ UNCHANGED <<serviceVars, rideVars, liveVars, ratingVars, orders, newOrders>>

\* ---- POST /orders/:id/status and /orders/:id/status-public (op): the first
\* statement is prisma.order.update({ where: { id }, data: { status, ... } })
StatusUpdate(op, u, o, t) ==
  /\ Arrives
  /\ Room(o)
  /\ IF HasOrder(o)
       THEN /\ orders' = [orders EXCEPT ![o] = WithStatus(@, t)]
            /\ req' = req (+) OneOf(HandlerWith(op, u, o, "os_track", t))
            /\ resp' = NoResp
       ELSE /\ Reject(op, u, o, "error_no_record")
            /\ UNCHANGED orders
  /\ UNCHANGED <<serviceVars, rideVars, liveVars, ratingVars, tracking, orderEvents, newOrders>>

\* authMiddleware only reads the token: any user may call
Status(u, o, t) == StatusUpdate("status", u, o, t)
\* no middleware: the caller is anonymous
StatusPublic(o, t) == StatusUpdate("status_public", NoUser, o, t)

\* orderTracking.create with the status; emit order-update; 200
StatusTrack(h) ==
  /\ h.pc = "os_track"
  /\ TrackAndNotify(h.id, h.arg)
  /\ Finish(h, "ok")
  /\ UNCHANGED <<serviceVars, rideVars, liveVars, ratingVars, orders, newOrders>>

\* ---- POST /orders/:id/accept-public: prisma.order.findUnique and the checks
AcceptPublic(o) ==
  /\ Arrives
  /\ Room(o)
  /\ IF ~HasOrder(o) THEN Reject("accept_public", NoUser, o, "404_not_found")
     ELSE IF orders[o].status # "PENDING" THEN Reject("accept_public", NoUser, o, "400_taken")
     ELSE Enter("accept_public", NoUser, o, "ap_update")
  /\ UNCHANGED <<serviceVars, rideVars, orderVars, liveVars, ratingVars>>

\* prisma.order.update({ where: { id }, data: { status: 'ACCEPTED' } })
AcceptPublicUpdate(h) ==
  /\ h.pc = "ap_update"
  /\ orders' = [orders EXCEPT ![h.id].status = "ACCEPTED"]
  /\ Goto(h, "ap_track")
  /\ UNCHANGED <<serviceVars, rideVars, liveVars, ratingVars, tracking, orderEvents, newOrders>>

\* orderTracking.create ACCEPTED; emit order-update; 200
AcceptPublicTrack(h) ==
  /\ h.pc = "ap_track"
  /\ TrackAndNotify(h.id, "ACCEPTED")
  /\ Finish(h, "ok")
  /\ UNCHANGED <<serviceVars, rideVars, liveVars, ratingVars, orders, newOrders>>

\* ---- DELETE /admin/orders/:id (requireAdmin):
\* prisma.order.update({ where: { id }, data: { status: 'CANCELLED' } })
AdminCancel(o) ==
  /\ Arrives
  /\ IF HasOrder(o)
       THEN /\ orders' = [orders EXCEPT ![o].status = "CANCELLED"]
            /\ resp' = Answer("admin_cancel", NoUser, o, "ok")
       ELSE /\ resp' = Answer("admin_cancel", NoUser, o, "500_failed")
            /\ UNCHANGED orders
  /\ UNCHANGED <<serviceVars, rideVars, liveVars, ratingVars, req, tracking, orderEvents, newOrders>>

NextOrders ==
  \/ \E u \in Users : Create(u)
  \/ \E u \in Users, o \in OrderIds : OrderAccept(u, o)
  \/ \E u \in Users, o \in OrderIds, t \in OrderStatuses : Status(u, o, t)
  \/ \E o \in OrderIds, t \in OrderStatuses : StatusPublic(o, t)
  \/ \E o \in OrderIds : AcceptPublic(o) \/ AdminCancel(o)
  \/ \E h \in InFlight :
       \/ CreateTrack(h)
       \/ OrderAcceptUpdate(h) \/ OrderAcceptTrack(h)
       \/ StatusTrack(h)
       \/ AcceptPublicUpdate(h) \/ AcceptPublicTrack(h)

SpecOrders == Init /\ [][NextOrders]_vars

\* the acceptance of orders by deliverers: orders are created and accepted
\* through POST /orders/:id/accept only
NextOrderAccept ==
  \/ \E u \in Users : Create(u)
  \/ \E u \in Users, o \in OrderIds : OrderAccept(u, o)
  \/ \E h \in InFlight : CreateTrack(h) \/ OrderAcceptUpdate(h) \/ OrderAcceptTrack(h)

SpecOrderAccept == Init /\ [][NextOrderAccept]_vars

\* ------------------------------------------------------------------------
\* Socket connections and topics (socket/index.ts)
\* ------------------------------------------------------------------------
\* The rooms of orders and rides, by the prefix of their name.  The personal
\* room user:<id> and the rooms deliverers and drivers are not modelled.

\* io.to(room).emit(...): the event reaches the sockets that are in the room
Receivers(room) == InRoom(room)

\* SELECT id FROM orders WHERE id = $1 AND (customer_id = $2 OR deliverer_id = $2)
OrderParty(o, u) == HasOrder(o) /\ u \in {orders[o].customerId, orders[o].delivererId}
\* SELECT id FROM rides WHERE id = $1 AND (rider_id = $2 OR driver_id = $2)
RideParty(r, u) == HasRide(r) /\ u \in {rides[r].rider_id, rides[r].driver_id}

\* the rooms a socket joins when it connects: the user's personal room, and
\* room deliverers if the user is a deliverer; none without socket.userId
ConnectRooms(u) ==
  IF u = NoUser THEN {}
  ELSE {UserRoom(u)} \cup (IF u \in Deliverers THEN {DeliverersRoom} ELSE {})

\* io.use(...) and io.on('connection'): a socket connects with the token of
\* user u, or without a valid token (NoUser)
Connect(c, u) ==
  /\ ~conns[c].open
  /\ conns' = [conns EXCEPT ![c] = [open |-> TRUE, user |-> u, rooms |-> ConnectRooms(u)]]
  /\ resp' = NoResp
  /\ UNCHANGED <<serviceVars, rideVars, orderVars, ratingVars, req, locations, casts, received, inbox>>

\* a subscribe handler whose party check ignores the caller
SubscribeAnyUser(op, c, id, party, pc) ==
  /\ Arrives
  /\ conns[c].open
  /\ IF conns[c].user = NoUser THEN Reject(op, NoUser, id, "ignored")
     ELSE req' = req (+) OneOf(HandlerWith(op, conns[c].user, id, pc, c)) /\ resp' = NoResp
  /\ UNCHANGED <<serviceVars, rideVars, orderVars, liveVars, ratingVars>>

\* socket.on('subscribe_order' / 'subscribe_ride'): nothing happens without
\* socket.userId; otherwise the query runs, and its result (party) decides
\* between the join after the await and the error event
Subscribe(op, c, id, party, pc) ==
  /\ Arrives
  /\ conns[c].open
  /\ IF conns[c].user = NoUser THEN Reject(op, NoUser, id, "ignored")
     ELSE IF ~party THEN Reject(op, conns[c].user, id, "error_not_authorized")
     ELSE req' = req (+) OneOf(HandlerWith(op, conns[c].user, id, pc, c)) /\ resp' = NoResp
  /\ UNCHANGED <<serviceVars, rideVars, orderVars, liveVars, ratingVars>>

\* socket.join(room); socket.emit('subscribed' / 'subscribed_ride')
Join(h, pc, room) ==
  /\ h.pc = pc
  /\ conns' = [conns EXCEPT ![h.arg].rooms = @ \cup {room}]
  /\ Finish(h, "subscribed")
  /\ UNCHANGED <<serviceVars, rideVars, orderVars, ratingVars, locations, casts, received, inbox>>

\* socket.on('unsubscribe_order' / 'unsubscribe_ride'): socket.leave(room)
Leave(c, room) ==
  /\ conns[c].open
  /\ room \in conns[c].rooms
  /\ conns' = [conns EXCEPT ![c].rooms = @ \ {room}]
  /\ resp' = NoResp
  /\ UNCHANGED <<serviceVars, rideVars, orderVars, ratingVars, req, locations, casts, received, inbox>>

SubscribeOrder(c, o) ==
  Subscribe("subscribe_order", c, o, OrderParty(o, conns[c].user), "so_join")
SubscribeOrderJoin(h) == Join(h, "so_join", OrderTopic(h.id))
UnsubscribeOrder(c, o) == Leave(c, OrderTopic(o))
SubscribeRide(c, r) ==
  Subscribe("subscribe_ride", c, r, RideParty(r, conns[c].user), "sr_join")
SubscribeRideJoin(h) == Join(h, "sr_join", RideTopic(h.id))
UnsubscribeRide(c, r) == Leave(c, RideTopic(r))

\* Topics: one order and one ride of customer u1 exist, the POST that created
\* each has answered; sockets connect and subscribe while deliverers accept
\* the order and the ride and the order's status is updated.
InitTopics ==
  /\ IdleLive
  /\ NoRatings
  /\ NoService
  /\ rides = <<NewRide("u1")>>
  /\ stats = [v \in Users |-> [total_rides_requested |-> IF v = "u1" THEN 1 ELSE 0,
                               total_rides_given |-> 0, total_earnings |-> 0]]
  /\ req = EmptyBag
  /\ resp = NoResp
  /\ rideEvents = [r \in RideIds |-> NoEvents]
  /\ poolEvents = [r \in RideIds |-> IF r = 1 THEN <<"new_ride">> ELSE <<>>]
  /\ orders = <<NewOrder("u1")>>
  /\ tracking = [o \in OrderIds |-> IF o = 1 THEN <<"PENDING">> ELSE <<>>]
  /\ orderEvents = [o \in OrderIds |-> <<>>]
  /\ newOrders = <<1>>

NextTopics ==
  \/ \E c \in Conns, u \in Users \cup {NoUser} : Connect(c, u)
  \/ \E c \in Conns, o \in 1..Len(orders) : SubscribeOrder(c, o) \/ UnsubscribeOrder(c, o)
  \/ \E c \in Conns, r \in 1..Len(rides) : SubscribeRide(c, r) \/ UnsubscribeRide(c, r)
  \/ \E u \in Deliverers, o \in 1..Len(orders) : OrderAccept(u, o)
  \/ \E u \in Deliverers, r \in 1..Len(rides) : Accept(u, r)
  \/ \E o \in 1..Len(orders) : StatusPublic(o, "PENDING")
  \/ \E h \in InFlight :
       \/ SubscribeOrderJoin(h) \/ SubscribeRideJoin(h)
       \/ OrderAcceptUpdate(h) \/ OrderAcceptTrack(h) \/ StatusTrack(h)
       \/ AcceptSelect(h) \/ AcceptCommit(h) \/ AcceptEmit(h)

SpecTopics == InitTopics /\ [][NextTopics]_vars

\* socket.on('go_online'): a deliverer's socket joins deliverers and drivers,
\* and deliverer_online goes to room deliverers; any other socket is ignored
GoOnline(c) ==
  /\ conns[c].open
  /\ IF conns[c].user # NoUser /\ conns[c].user \in Deliverers
       THEN /\ conns' = [conns EXCEPT ![c].rooms = @ \cup {DeliverersRoom, DriversRoom}]
            /\ Deliver(InRoom(DeliverersRoom) \cup {c}, "deliverer_online", 0)
       ELSE UNCHANGED <<conns, inbox>>
  /\ resp' = NoResp
  /\ UNCHANGED <<serviceVars, rideVars, orderVars, ratingVars, req, locations, casts, received>>

\* socket.on('go_offline'): the socket leaves both rooms, and deliverer_offline
\* goes to those still in room deliverers
GoOffline(c) ==
  /\ conns[c].open
  /\ IF conns[c].user # NoUser /\ conns[c].user \in Deliverers
       THEN /\ conns' = [conns EXCEPT ![c].rooms = @ \ {DeliverersRoom, DriversRoom}]
            /\ Deliver(InRoom(DeliverersRoom) \ {c}, "deliverer_offline", 0)
       ELSE UNCHANGED <<conns, inbox>>
  /\ resp' = NoResp
  /\ UNCHANGED <<serviceVars, rideVars, orderVars, ratingVars, req, locations, casts, received>>

\* The pools: sockets connect and go online and offline while orders and
\* rides are requested.
NextPool ==
  \/ \E c \in Conns, u \in Users \cup {NoUser} : Connect(c, u)
  \/ \E c \in Conns : GoOnline(c) \/ GoOffline(c)
  \/ \E u \in Users : Create(u)
  \/ CreateAnonymous
  \/ \E u \in Riders : Request(u)
  \/ \E h \in InFlight :
       \/ CreateTrack(h) \/ CreateAnonymousTrack(h)
       \/ RequestInsert(h) \/ RequestStats(h)

SpecPool == Init /\ [][NextPool]_vars

\* ------------------------------------------------------------------------
\* Location samples (socket location_update, POST /tracking/location)
\* ------------------------------------------------------------------------
\* The value of column orders.status for a status of the order routes.  The
\* raw SQL of the socket, tracking and rating handlers compares the column
\* with lower-case names; on_the_way is the name of DELIVERING, and
\* PICKING_UP has no name among those the SQL handlers know.
ColumnOf(s) ==
  CASE s = "PENDING" -> "pending" [] s = "ACCEPTED" -> "accepted"
    [] s = "PICKING_UP" -> "picking_up" [] s = "PICKED_UP" -> "picked_up"
    [] s = "DELIVERING" -> "on_the_way" [] s = "DELIVERED" -> "delivered"
    [] s = "CANCELLED" -> "cancelled"

\* status IN ('accepted', 'picked_up', 'on_the_way')
Trackable == {"accepted", "picked_up", "on_the_way"}

\* SELECT ... FROM orders WHERE id = $1 AND deliverer_id = $2 AND status IN (...)
ActiveAssignee(o, u) ==
  HasOrder(o) /\ orders[o].delivererId = u /\ ColumnOf(orders[o].status) \in Trackable

\* the handlers in flight that will store or broadcast a sample of order o
Reporting(o) == {h \in InFlight : h.id = o /\ h.pc \in {"lu_cast", "pl_insert", "pl_cast"}}
\* order o has room for the sample of one more request
RoomForSample(o) ==
  /\ Len(locations[o]) + BagCardinality([h \in Reporting(o) |-> req[h]]) < MaxLoc
  /\ Len(casts[o]) + BagCardinality([h \in Reporting(o) |-> req[h]]) < MaxLoc

\* socket.on('location_update'): the checks of socket.userId and
\* socket.isDeliverer, then the query
LocationUpdate(c, o) ==
  /\ Arrives
  /\ conns[c].open
  /\ RoomForSample(o)
  /\ IF conns[c].user \notin Deliverers
       THEN Reject("location_update", conns[c].user, o, "error_not_authorized")
     ELSE IF ~ActiveAssignee(o, conns[c].user)
       THEN Reject("location_update", conns[c].user, o, "error_not_assigned")
     ELSE req' = req (+) OneOf(HandlerWith("location_update", conns[c].user, o, "lu_cast", c))
          /\ resp' = NoResp
  /\ UNCHANGED <<serviceVars, rideVars, orderVars, liveVars, ratingVars>>

\* io.to(`order:${orderId}`).emit('deliverer_location', ...)
LocationCast(h) ==
  /\ h.pc = "lu_cast"
  /\ casts' = [casts EXCEPT ![h.id] = Append(@, h.user)]
  /\ Publish(OrderTopic(h.id))
  /\ Finish(h, "cast")
  /\ UNCHANGED <<serviceVars, rideVars, orderVars, ratingVars, conns, locations, inbox>>

\* POST /tracking/location (authenticate): the query and the 403
PostLocation(u, o) ==
  /\ Arrives
  /\ RoomForSample(o)
  /\ IF ~ActiveAssignee(o, u) THEN Reject("post_location", u, o, "403_not_authorized")
                              ELSE Enter("post_location", u, o, "pl_insert")
  /\ UNCHANGED <<serviceVars, rideVars, orderVars, liveVars, ratingVars>>

\* INSERT INTO location_updates (order_id, user_id, ...)
PostLocationInsert(h) ==
  /\ h.pc = "pl_insert"
  /\ locations' = [locations EXCEPT ![h.id] = Append(@, h.user)]
  /\ Goto(h, "pl_cast")
  /\ UNCHANGED <<serviceVars, rideVars, orderVars, ratingVars, conns, casts, received, inbox>>

\* io.to(`order:${orderId}`).emit('location_update', ...); 200
PostLocationCast(h) ==
  /\ h.pc = "pl_cast"
  /\ casts' = [casts EXCEPT ![h.id] = Append(@, h.user)]
  /\ Publish(OrderTopic(h.id))
  /\ Finish(h, "ok")
  /\ UNCHANGED <<serviceVars, rideVars, orderVars, ratingVars, conns, locations, inbox>>

\* Location reports on the one order of InitTopics, while it is accepted,
\* updated and cancelled.
NextLocation ==
  \/ \E c \in Conns, u \in Deliverers : Connect(c, u)
  \/ \E c \in Conns, o \in 1..Len(orders) : LocationUpdate(c, o)
  \/ \E u \in Users, o \in 1..Len(orders) : PostLocation(u, o)
  \/ \E u \in Deliverers, o \in 1..Len(orders) : OrderAccept(u, o)
  \/ \E o \in 1..Len(orders), t \in OrderStatuses : StatusPublic(o, t)
  \/ \E o \in 1..Len(orders) : AdminCancel(o)
  \/ \E h \in InFlight :
       \/ LocationCast(h) \/ PostLocationInsert(h) \/ PostLocationCast(h)
       \/ OrderAcceptUpdate(h) \/ OrderAcceptTrack(h) \/ StatusTrack(h)

SpecLocation == InitTopics /\ [][NextLocation]_vars

\* an order id that no order has
NoSuchOrder == MaxOrders + 1
\* the ids a location query may name
QueryIds == OrderIds \cup {NoSuchOrder}

\* a location query whose 403 check is missing
LocationQueryAnyCaller(op, u, o, pc) ==
  /\ Arrives
  /\ Enter(op, u, o, pc)
  /\ UNCHANGED <<serviceVars, rideVars, orderVars, liveVars, ratingVars>>

\* GET /tracking/order/:orderId/location and .../history (authenticate):
\* SELECT * FROM orders WHERE id = $1 AND (customer_id = $2 OR deliverer_id = $2),
\* 403 when there is no such row
LocationQuery(op, u, o, pc) ==
  /\ Arrives
  /\ IF ~OrderParty(o, u) THEN Reject(op, u, o, "403_not_authorized")
                          ELSE Enter(op, u, o, pc)
  /\ UNCHANGED <<serviceVars, rideVars, orderVars, liveVars, ratingVars>>

GetLocation(u, o) == LocationQuery("get_location", u, o, "gl_read")
GetHistory(u, o) == LocationQuery("get_history", u, o, "gh_read")

\* SELECT ... FROM location_updates WHERE order_id = $1 ORDER BY created_at
\* DESC LIMIT 1; res.json({ location: location || null, orderStatus })
GetLocationRead(h) ==
  /\ h.pc = "gl_read"
  /\ Finish(h, IF HasOrder(h.id) /\ locations[h.id] # <<>> THEN "location" ELSE "null")
  /\ UNCHANGED <<serviceVars, rideVars, orderVars, liveVars, ratingVars>>

\* SELECT ... FROM location_updates WHERE order_id = $1 ORDER BY created_at
\* DESC LIMIT $2; res.json({ locations, orderStatus })
GetHistoryRead(h) ==
  /\ h.pc = "gh_read"
  /\ Finish(h, "locations")
  /\ UNCHANGED <<serviceVars, rideVars, orderVars, liveVars, ratingVars>>

\* Location queries on the one order of InitTopics and on an order that does
\* not exist, while the order is accepted and samples are stored.
NextLocationQuery ==
  \/ \E u \in Users, o \in QueryIds : GetLocation(u, o) \/ GetHistory(u, o)
  \/ \E u \in Users, o \in 1..Len(orders) : PostLocation(u, o)
  \/ \E u \in Deliverers, o \in 1..Len(orders) : OrderAccept(u, o)
  \/ \E h \in InFlight :
       \/ GetLocationRead(h) \/ GetHistoryRead(h)
       \/ PostLocationInsert(h) \/ PostLocationCast(h)
       \/ OrderAcceptUpdate(h) \/ OrderAcceptTrack(h)

SpecLocationQuery == InitTopics /\ [][NextLocationQuery]_vars

\* socket.on('disconnect'): the socket is gone with its rooms; a client that
\* reconnects gets a new socket.  (A socket with a subscribe in flight is
\* taken to stay until the handler ends.)
Disconnect(c) ==
  /\ conns[c].open
  /\ \A h \in InFlight : h.op \in {"subscribe_order", "subscribe_ride"} => h.arg # c
  /\ conns' = [conns EXCEPT ![c] = NoConn]
  /\ inbox' = [inbox EXCEPT ![c] = {}]
  /\ received' = [received EXCEPT ![c] = [t \in Topics |-> 0]]
  /\ resp' = NoResp
  /\ UNCHANGED <<serviceVars, rideVars, orderVars, ratingVars, req, locations, casts>>

\* Delivery: sockets of users connect, subscribe, unsubscribe and disconnect
\* while the ride is accepted and the deliverer of the order posts its
\* location.
NextDelivery ==
  \/ \E c \in Conns, u \in Users : Connect(c, u)
  \/ \E c \in Conns : Disconnect(c)
  \/ \E c \in Conns, o \in 1..Len(orders) : SubscribeOrder(c, o) \/ UnsubscribeOrder(c, o)
  \/ \E c \in Conns, r \in 1..Len(rides) : SubscribeRide(c, r) \/ UnsubscribeRide(c, r)
  \/ \E u \in {"u2"}, r \in 1..Len(rides) : Accept(u, r)
  \/ \E u \in {"u3"}, o \in 1..Len(orders) : OrderAccept(u, o) \/ PostLocation(u, o)
  \/ \E h \in InFlight :
       \/ SubscribeOrderJoin(h) \/ SubscribeRideJoin(h)
       \/ AcceptSelect(h) \/ AcceptCommit(h) \/ AcceptEmit(h)
       \/ OrderAcceptUpdate(h) \/ OrderAcceptTrack(h)
       \/ PostLocationInsert(h) \/ PostLocationCast(h)

SpecDelivery == InitTopics /\ [][NextDelivery]_vars

\* ------------------------------------------------------------------------
\* Events relayed by socket handlers (socket update_status, typing_start,
\* typing_stop)
\* ------------------------------------------------------------------------
\* the statuses a client reports (data.status is not validated)
ReportedStatuses == {"ACCEPTED", "DELIVERED"}

\* socket.to(room).emit(...): every socket in the room but the sender
PublishExcept(room, c) ==
  received' = [x \in Conns |->
                 IF room \in conns[x].rooms /\ x # c
                   THEN [received[x] EXCEPT ![room] = @ + 1] ELSE received[x]]

Relay(c, o, name, t) ==
  /\ Len(notices[o]) < MaxNotices
  /\ notices' = [notices EXCEPT ![o] = Append(@, [name |-> name, status |-> t,
                                                  by |-> conns[c].user])]
  /\ req' = req
  /\ resp' = NoResp
  /\ UNCHANGED <<authVars, listVars, dbVars, chargerVars, rideVars, orderVars, ratingVars,
                 conns, locations, casts, inbox>>

\* socket.on('update_status'): 'Not authenticated' without socket.userId,
\* else io.to(`order:${data.orderId}`).emit('status_updated', ...)
UpdateStatus(c, o, t) ==
  /\ conns[c].open
  /\ IF conns[c].user = NoUser
       THEN /\ Reject("update_status", NoUser, o, "error_auth")
            /\ UNCHANGED <<serviceVars, rideVars, orderVars, liveVars, ratingVars>>
       ELSE Relay(c, o, "status_updated", t) /\ Publish(OrderTopic(o))

\* socket.on('typing_start'): socket.to(`order:${orderId}`).emit('user_typing')
TypingStart(c, o) ==
  /\ conns[c].open
  /\ Relay(c, o, "user_typing", "none") /\ PublishExcept(OrderTopic(o), c)

\* socket.on('typing_stop')
TypingStop(c, o) ==
  /\ conns[c].open
  /\ Relay(c, o, "user_stopped_typing", "none") /\ PublishExcept(OrderTopic(o), c)

\* Sockets connect, subscribe to the order of customer u1 and relay events
\* while the order is accepted and its status is updated over the routes.
NextRelay ==
  \/ \E c \in Conns, u \in Users \cup {NoUser} : Connect(c, u)
  \/ \E c \in Conns, o \in 1..Len(orders) : SubscribeOrder(c, o) \/ UnsubscribeOrder(c, o)
  \/ \E c \in Conns, o \in OrderIds :
       \/ \E t \in ReportedStatuses : UpdateStatus(c, o, t)
       \/ TypingStart(c, o) \/ TypingStop(c, o)
  \/ \E u \in Deliverers, o \in 1..Len(orders) : OrderAccept(u, o)
  \/ \E u \in Users, o \in 1..Len(orders) : Status(u, o, "DELIVERED")
  \/ \E h \in InFlight :
       \/ SubscribeOrderJoin(h)
       \/ OrderAcceptUpdate(h) \/ OrderAcceptTrack(h) \/ StatusTrack(h)

SpecRelay == InitTopics /\ [][NextRelay]_vars

\* ------------------------------------------------------------------------
\* Ratings (POST /ratings/order/:orderId over pg, POST /users/rate over Prisma)
\* ------------------------------------------------------------------------
\* rating INTEGER CHECK (rating >= 1 AND rating <= 5): the lowest and the
\* highest score
Scores == {1, 5}

RECURSIVE SumFor(_, _, _)
\* the sum of the scores of the ratings of user u among the first n rows of seq
SumFor(seq, u, n) ==
  IF n = 0 THEN 0
  ELSE SumFor(seq, u, n - 1) + (IF seq[n].rated = u THEN seq[n].score ELSE 0)
\* the number of rows of seq that rate user u
CountFor(seq, u) == Cardinality({i \in 1..Len(seq) : seq[i].rated = u})

\* AVG(rating) stored in avg_rating DECIMAL(3, 2): hundredths, rounded half up
Hundredths(sum, count) == IF count = 0 THEN 0 ELSE (200 * sum + count) \div (2 * count)
\* Math.round(avgRating * 10) / 10: tenths, rounded half up
Tenths(sum, count) == IF count = 0 THEN 0 ELSE (20 * sum + count) \div (2 * count)

\* a row of table ratings / of table Rating
RatingRow(o, rater, rated, score) ==
  [order |-> o, rater |-> rater, rated |-> rated, score |-> score]
\* what a rating handler carries between its statements
RatingArg(rated, score, avg, count) ==
  [rated |-> rated, score |-> score, avg |-> avg, count |-> count]

\* SELECT id FROM ratings WHERE order_id = $1 AND rater_id = $2 AND rated_user_id = $3
\* (and the rows UNIQUE(order_id, rater_id, rated_user_id) compares with)
Rated(o, rater, rated) ==
  \E i \in 1..Len(ratings) :
    ratings[i].order = o /\ ratings[i].rater = rater /\ ratings[i].rated = rated

\* the transactions in flight that have inserted the row of this triple and
\* not yet committed
Inserted(o, rater, rated) ==
  \E h \in InFlight :
    /\ h.op = "rate_order" /\ h.pc \in {"rt_avg", "rt_commit"}
    /\ h.id = o /\ h.user = rater /\ h.arg.rated = rated

\* ---- POST /ratings/order/:orderId: SELECT * FROM orders WHERE id = $1 and
\* the checks that find the rated user
RateOrder(u, o, score) ==
  /\ Arrives
  /\ IF ~HasOrder(o) THEN Reject("rate_order", u, o, "404_not_found")
     ELSE IF ColumnOf(orders[o].status) # "delivered"
       THEN Reject("rate_order", u, o, "400_not_delivered")
     ELSE IF orders[o].customerId = u /\ orders[o].delivererId = NoUser
       THEN Reject("rate_order", u, o, "400_no_deliverer")
     ELSE IF orders[o].customerId = u
       THEN req' = req (+) OneOf(HandlerWith("rate_order", u, o, "rt_exists",
                                   RatingArg(orders[o].delivererId, score, 0, 0)))
            /\ resp' = NoResp
     ELSE IF orders[o].delivererId = u
       THEN req' = req (+) OneOf(HandlerWith("rate_order", u, o, "rt_exists",
                                   RatingArg(orders[o].customerId, score, 0, 0)))
            /\ resp' = NoResp
     ELSE Reject("rate_order", u, o, "403_not_party")
  /\ UNCHANGED <<serviceVars, rideVars, orderVars, liveVars, ratingVars>>

\* the existingRating query and its 400
RateExists(h) ==
  /\ h.pc = "rt_exists"
  /\ IF Rated(h.id, h.user, h.arg.rated) THEN Finish(h, "400_rated")
                                         ELSE Goto(h, "rt_insert")
  /\ UNCHANGED <<serviceVars, rideVars, orderVars, liveVars, ratingVars>>

\* BEGIN; INSERT INTO ratings: UNIQUE(order_id, rater_id, rated_user_id) makes
\* the INSERT wait for a transaction in flight that inserted the same triple,
\* and fail when a committed row has it (ROLLBACK, the error leaves the
\* handler).  The inserted row is visible to this transaction only.
RateInsert(h) ==
  /\ h.pc = "rt_insert"
  /\ ~Inserted(h.id, h.user, h.arg.rated)
  /\ IF Rated(h.id, h.user, h.arg.rated) THEN Finish(h, "500_error")
                                         ELSE Goto(h, "rt_avg")
  /\ UNCHANGED <<serviceVars, rideVars, orderVars, liveVars, ratingVars>>

\* SELECT AVG(rating), COUNT(*) FROM ratings WHERE rated_user_id = $1 (READ
\* COMMITTED): the committed rows and the row this transaction inserted
RateAvg(h) ==
  /\ h.pc = "rt_avg"
  /\ LET sum == SumFor(ratings, h.arg.rated, Len(ratings)) + h.arg.score
         count == CountFor(ratings, h.arg.rated) + 1
     IN req' = (req (-) OneOf(h)) (+)
               OneOf([h EXCEPT !.pc = "rt_commit",
                               !.arg = RatingArg(h.arg.rated, h.arg.score,
                                                 Hundredths(sum, count), count)])
  /\ resp' = NoResp
  /\ UNCHANGED <<serviceVars, rideVars, orderVars, liveVars, ratingVars>>

\* UPDATE users SET avg_rating = $1, total_ratings = $2 WHERE id = $3; COMMIT;
\* 201
RateCommit(h) ==
  /\ h.pc = "rt_commit"
  /\ ratings' = Append(ratings, RatingRow(h.id, h.user, h.arg.rated, h.arg.score))
  /\ userRows' = [userRows EXCEPT ![h.arg.rated].avg_rating = h.arg.avg,
                                  ![h.arg.rated].total_ratings = h.arg.count]
  /\ Finish(h, "ok")
  /\ UNCHANGED <<serviceVars, rideVars, orderVars, liveVars, prismaRatings>>

\* ---- POST /users/rate (authMiddleware): prisma.rating.create with the
\* rateeId and the orderId of the body
UserRate(u, ratee, o, score) ==
  /\ Arrives
  /\ Len(prismaRatings) < MaxRatings
  /\ prismaRatings' = Append(prismaRatings, RatingRow(o, u, ratee, score))
  /\ req' = req (+) OneOf(HandlerWith("user_rate", u, o, "ur_find",
                                      RatingArg(ratee, score, 0, 0)))
  /\ resp' = NoResp
  /\ UNCHANGED <<serviceVars, rideVars, orderVars, liveVars, ratings, userRows>>

\* prisma.rating.findMany({ where: { rateeId } }) and the average of the scores
UserRateFind(h) ==
  /\ h.pc = "ur_find"
  /\ LET sum == SumFor(prismaRatings, h.arg.rated, Len(prismaRatings))
         count == CountFor(prismaRatings, h.arg.rated)
     IN req' = (req (-) OneOf(h)) (+)
               OneOf([h EXCEPT !.pc = "ur_update",
                               !.arg = RatingArg(h.arg.rated, h.arg.score,
                                                 Tenths(sum, count), count)])
  /\ resp' = NoResp
  /\ UNCHANGED <<serviceVars, rideVars, orderVars, liveVars, ratingVars>>

\* prisma.user.update({ where: { id: rateeId }, data: { delivererRating } }); 201
UserRateUpdate(h) ==
  /\ h.pc = "ur_update"
  /\ userRows' = [userRows EXCEPT ![h.arg.rated].delivererRating = h.arg.avg]
  /\ Finish(h, "ok")
  /\ UNCHANGED <<serviceVars, rideVars, orderVars, liveVars, ratings, prismaRatings>>

\* an order of customer u that deliverer d has delivered
DeliveredOrder(u, d) ==
  [status |-> "DELIVERED", customerId |-> u, delivererId |-> d,
   pickedUpAt |-> 1, deliveredAt |-> 1]

\* Ratings: deliverer u3 has delivered one order of u1 and one order of u2.
InitRatings ==
  /\ IdleLive
  /\ NoRatings
  /\ NoService
  /\ rides = <<>>
  /\ stats = [u \in Users |-> [total_rides_requested |-> 0, total_rides_given |-> 0,
                               total_earnings |-> 0]]
  /\ req = EmptyBag
  /\ resp = NoResp
  /\ rideEvents = [r \in RideIds |-> NoEvents]
  /\ poolEvents = [r \in RideIds |-> <<>>]
  /\ orders = <<DeliveredOrder("u1", "u3"), DeliveredOrder("u2", "u3")>>
  /\ tracking = [o \in {1, 2} |-> <<"PENDING", "ACCEPTED", "PICKED_UP", "DELIVERED">>]
  /\ orderEvents = [o \in {1, 2} |-> <<"ACCEPTED", "PICKED_UP", "DELIVERED">>]
  /\ newOrders = <<1, 2>>

\* ratings of delivered orders through POST /ratings/order/:orderId
NextRatings ==
  \/ \E u \in Users, o \in 1..Len(orders), score \in Scores : RateOrder(u, o, score)
  \/ \E h \in InFlight : RateExists(h) \/ RateInsert(h) \/ RateAvg(h) \/ RateCommit(h)

SpecRatings == InitRatings /\ [][NextRatings]_vars

\* ratings through POST /users/rate
NextUserRate ==
  \/ \E u \in Users, ratee \in Deliverers, o \in 1..Len(orders), score \in Scores :
       UserRate(u, ratee, o, score)
  \/ \E h \in InFlight : UserRateFind(h) \/ UserRateUpdate(h)

SpecUserRate == InitRatings /\ [][NextUserRate]_vars

\* ------------------------------------------------------------------------
\* Accounts and codes (routes/auth.ts, services/email)
\* ------------------------------------------------------------------------
\* a handler of the auth routes: the email of the body, and the code the
\* request carries (0 if none)
AuthHandler(op, e, pc, code) == HandlerWith(op, e, 0, pc, code)

\* stored.expiresAt < new Date()
Expired(entry) == entry.expiresAt < now
\* { code, expiresAt: new Date(Date.now() + 10 * 60 * 1000) } with the code
\* generateVerificationCode returns
NewCode == [code |-> issued + 1, expiresAt |-> now + CodeTtl]
\* the outcomes of a call of the mail service
MailOutcomes == {"sent", "failed"}

\* time passes
Tick ==
  /\ now < MaxTime
  /\ now' = now + 1
  /\ resp' = NoResp
  /\ UNCHANGED <<restOfStore, req, accounts, verificationCodes, resetCodes, issued,
                 redeemed, mailed>>

\* ---- POST /auth/register: prisma.user.findUnique, 400 if the email exists
Register(e) ==
  /\ Arrives
  /\ IF accounts[e].exists THEN Reject("register", e, 0, "400_registered")
                           ELSE req' = req (+) OneOf(AuthHandler("register", e, "rg_create", 0))
                                /\ resp' = NoResp
  /\ UNCHANGED <<restOfStore, authVars>>

\* bcrypt.hash; prisma.user.create, which throws on the unique email when
\* another register created the user meanwhile (next(error))
RegisterCreate(h) ==
  /\ h.pc = "rg_create"
  /\ IF accounts[h.user].exists
       THEN Finish(h, "500_error") /\ UNCHANGED accounts
       ELSE /\ accounts' = [accounts EXCEPT ![h.user] =
                              [exists |-> TRUE, isVerified |-> FALSE, passwordHash |-> 1]]
            /\ Goto(h, "rg_code")
  /\ UNCHANGED <<restOfStore, verificationCodes, resetCodes, now, issued, redeemed, mailed>>

\* verificationCodes.set; sendVerificationEmail(...).catch(log), not awaited; 201
RegisterCode(h, outcome) ==
  /\ h.pc = "rg_code"
  /\ issued < MaxCodes
  /\ verificationCodes' = [verificationCodes EXCEPT ![h.user] = NewCode]
  /\ issued' = issued + 1
  /\ mailed' = outcome
  /\ Finish(h, "ok")
  /\ UNCHANGED <<restOfStore, accounts, resetCodes, now, redeemed>>

\* ---- POST /auth/send-code: findUnique, 404 without the user, 400 when the
\* user is verified
SendCode(e) ==
  /\ Arrives
  /\ IF ~accounts[e].exists THEN Reject("send_code", e, 0, "404_not_found")
     ELSE IF accounts[e].isVerified THEN Reject("send_code", e, 0, "400_verified")
     ELSE req' = req (+) OneOf(AuthHandler("send_code", e, "sc_set", 0)) /\ resp' = NoResp
  /\ UNCHANGED <<restOfStore, authVars>>

\* verificationCodes.set(email, { code, expiresAt }); the call of
\* sendVerificationEmail starts
SendCodeSet(h) ==
  /\ h.pc = "sc_set"
  /\ issued < MaxCodes
  /\ verificationCodes' = [verificationCodes EXCEPT ![h.user] = NewCode]
  /\ issued' = issued + 1
  /\ Goto(h, "sc_mail")
  /\ UNCHANGED <<restOfStore, accounts, resetCodes, now, redeemed, mailed>>

\* const sent = await sendVerificationEmail(...); if (!sent) return 500
SendCodeMail(h, outcome) ==
  /\ h.pc = "sc_mail"
  /\ mailed' = outcome
  /\ Finish(h, IF outcome = "sent" THEN "ok" ELSE "500_mail")
  /\ UNCHANGED <<restOfStore, accounts, verificationCodes, resetCodes, now, issued, redeemed>>

\* ---- POST /auth/resend-code: findUnique, 404 without the user, 200 'Already
\* verified' for a verified one
ResendCode(e) ==
  /\ Arrives
  /\ IF ~accounts[e].exists THEN Reject("resend_code", e, 0, "404_not_found")
     ELSE IF accounts[e].isVerified THEN Reject("resend_code", e, 0, "ok_already_verified")
     ELSE req' = req (+) OneOf(AuthHandler("resend_code", e, "rs_set", 0)) /\ resp' = NoResp
  /\ UNCHANGED <<restOfStore, authVars>>

\* verificationCodes.set; sendVerificationEmail(...).catch(log), not awaited; 200
ResendCodeSet(h, outcome) ==
  /\ h.pc = "rs_set"
  /\ issued < MaxCodes
  /\ verificationCodes' = [verificationCodes EXCEPT ![h.user] = NewCode]
  /\ issued' = issued + 1
  /\ mailed' = outcome
  /\ Finish(h, "ok")
  /\ UNCHANGED <<restOfStore, accounts, resetCodes, now, redeemed>>

\* The checks a redeem request makes before its first await, on the entry
\* of the Map for its email: no entry, expired (the entry is deleted), wrong
\* code; "pass" when the code is the stored one
CodeCheck(entry, code) ==
  IF entry = NoCode THEN "400_no_code"
  ELSE IF Expired(entry) THEN "400_expired"
  ELSE IF entry.code # code THEN "400_invalid"
  ELSE "pass"
\* the Map after the checks: verificationCodes.delete(email) on an expired entry
AfterCheck(map, e) ==
  IF map[e] # NoCode /\ Expired(map[e]) THEN [map EXCEPT ![e] = NoCode] ELSE map

\* ---- POST /auth/verify: the checks on verificationCodes.get(email)
Verify(e, code) ==
  /\ Arrives
  /\ verificationCodes' = AfterCheck(verificationCodes, e)
  /\ IF CodeCheck(verificationCodes[e], code) = "pass"
       THEN req' = req (+) OneOf(AuthHandler("verify", e, "vf_update", code)) /\ resp' = NoResp
       ELSE Reject("verify", e, 0, CodeCheck(verificationCodes[e], code))
  /\ UNCHANGED <<restOfStore, accounts, resetCodes, now, issued, redeemed, mailed>>

\* prisma.user.update({ data: { isVerified: true } });
\* verificationCodes.delete(email); sendWelcomeEmail(...).catch(log); 200
VerifyUpdate(h, outcome) ==
  /\ h.pc = "vf_update"
  /\ accounts' = [accounts EXCEPT ![h.user].isVerified = TRUE]
  /\ verificationCodes' = [verificationCodes EXCEPT ![h.user] = NoCode]
  /\ redeemed' = [redeemed EXCEPT !["verify"][h.arg] = @ + 1]
  /\ mailed' = outcome
  /\ Finish(h, "ok")
  /\ UNCHANGED <<restOfStore, resetCodes, now, issued>>

\* ---- POST /auth/forgot-password: findUnique; without the user the same 200
\* and no code
ForgotPassword(e) ==
  /\ Arrives
  /\ IF ~accounts[e].exists THEN Reject("forgot_password", e, 0, "ok")
     ELSE req' = req (+) OneOf(AuthHandler("forgot_password", e, "fp_set", 0)) /\ resp' = NoResp
  /\ UNCHANGED <<restOfStore, authVars>>

\* resetCodes.set(email, { code, expiresAt }); resend.emails.send starts
ForgotSet(h) ==
  /\ h.pc = "fp_set"
  /\ issued < MaxCodes
  /\ resetCodes' = [resetCodes EXCEPT ![h.user] = NewCode]
  /\ issued' = issued + 1
  /\ Goto(h, "fp_mail")
  /\ UNCHANGED <<restOfStore, accounts, verificationCodes, now, redeemed, mailed>>

\* await resend.emails.send(...).catch(log); 200
ForgotMail(h, outcome) ==
  /\ h.pc = "fp_mail"
  /\ mailed' = outcome
  /\ Finish(h, "ok")
  /\ UNCHANGED <<restOfStore, accounts, verificationCodes, resetCodes, now, issued, redeemed>>

\* ---- POST /auth/reset-password: the checks on resetCodes.get(email)
ResetPassword(e, code) ==
  /\ Arrives
  /\ resetCodes' = AfterCheck(resetCodes, e)
  /\ IF CodeCheck(resetCodes[e], code) = "pass"
       THEN req' = req (+) OneOf(AuthHandler("reset_password", e, "rp_update", code))
            /\ resp' = NoResp
       ELSE Reject("reset_password", e, 0, CodeCheck(resetCodes[e], code))
  /\ UNCHANGED <<restOfStore, accounts, verificationCodes, now, issued, redeemed, mailed>>

\* bcrypt.hash; prisma.user.update({ data: { passwordHash } });
\* resetCodes.delete(email); 200
ResetUpdate(h) ==
  /\ h.pc = "rp_update"
  /\ accounts' = [accounts EXCEPT ![h.user].passwordHash = @ + 1]
  /\ resetCodes' = [resetCodes EXCEPT ![h.user] = NoCode]
  /\ redeemed' = [redeemed EXCEPT !["reset"][h.arg] = @ + 1]
  /\ Finish(h, "ok")
  /\ UNCHANGED <<restOfStore, verificationCodes, now, issued, mailed>>

\* Accounts: users register, ask for codes and redeem them while time passes.
NextAuth ==
  \/ Tick
  \/ \E e \in Emails :
       Register(e) \/ SendCode(e) \/ ResendCode(e) \/ ForgotPassword(e)
  \/ \E e \in Emails, code \in Codes : Verify(e, code) \/ ResetPassword(e, code)
  \/ \E h \in InFlight :
       \/ RegisterCreate(h) \/ SendCodeSet(h) \/ ForgotSet(h) \/ ResetUpdate(h)
       \/ \E outcome \in MailOutcomes :
            \/ RegisterCode(h, outcome) \/ SendCodeMail(h, outcome)
            \/ ResendCodeSet(h, outcome) \/ VerifyUpdate(h, outcome)
            \/ ForgotMail(h, outcome)

SpecAuth == Init /\ [][NextAuth]_vars

\* ------------------------------------------------------------------------
\* The lists of available rides and orders
\* ------------------------------------------------------------------------
\* the ids of set S, smallest first: ORDER BY created_at ASC (the id of a row
\* is its place in creation order)
RECURSIVE Ascending(_)
Ascending(S) ==
  IF S = {} THEN <<>>
  ELSE LET least == CHOOSE x \in S : \A y \in S : x <= y
       IN <<least>> \o Ascending(S \ {least})
\* the ids of set S, largest first: orderBy: { createdAt: 'desc' }
RECURSIVE Descending(_)
Descending(S) ==
  IF S = {} THEN <<>>
  ELSE LET most == CHOOSE x \in S : \A y \in S : x >= y
       IN <<most>> \o Descending(S \ {most})
\* LIMIT 20
AvailableLimit == 20
Limit(seq, n) == IF Len(seq) <= n THEN seq ELSE SubSeq(seq, 1, n)

\* SELECT ... FROM rides r JOIN users u ... WHERE r.status = 'pending' AND
\* r.rider_id != $1 ORDER BY r.created_at ASC LIMIT 20
AvailableRides(u) ==
  Limit(Ascending({r \in 1..Len(rides) :
                     rides[r].status = "pending" /\ rides[r].rider_id # u}),
        AvailableLimit)
\* prisma.order.findMany({ where: { status: 'PENDING' }, orderBy: { createdAt: 'desc' } })
AvailableOrders == Descending({o \in 1..Len(orders) : orders[o].status = "PENDING"})

\* the list routes answer in one step: a single query
ListAnswer(op, u, ids) ==
  /\ listing' = ids
  /\ req' = req
  /\ resp' = Answer(op, u, 0, "ok")
  /\ UNCHANGED <<tables, authVars>>

\* ---- GET /rides/available (authenticate, requireDeliverer)
ListRides(u) ==
  IF u \in Deliverers THEN ListAnswer("available_rides", u, AvailableRides(u))
  ELSE /\ Reject("available_rides", u, 0, "403_deliverer")
       /\ UNCHANGED <<tables, authVars, listVars>>
\* ---- GET /orders/available (authMiddleware)
ListOrders(u) == ListAnswer("available_orders", u, AvailableOrders)
\* ---- GET /orders/available-public
ListOrdersPublic == ListAnswer("available_public", NoUser, AvailableOrders)

\* a rides row that POST /rides created for rider u and that is pending or
\* was cancelled by u
ListedRide(u, st) ==
  [NewRide(u) EXCEPT !.status = st, !.cancelled_by = IF st = "cancelled" THEN u ELSE NoUser]
\* the tables the lists are read from: up to MaxListed rides and orders of any
\* requesters, each pending or cancelled
InitAvailable ==
  /\ IdleLive
  /\ NoRatings
  /\ NoService
  /\ \E n \in 0..MaxRides :
       rides \in [1..n -> {ListedRide(u, st) : u \in Riders, st \in {"pending", "cancelled"}}]
  /\ \E n \in 0..MaxListed :
       orders \in [1..n -> {[NewOrder(u) EXCEPT !.status = st] :
                              u \in Users, st \in {"PENDING", "CANCELLED"}}]
  /\ stats = [u \in Users |->
                [total_rides_requested |-> Cardinality({r \in 1..Len(rides) : rides[r].rider_id = u}),
                 total_rides_given |-> 0, total_earnings |-> 0]]
  /\ req = EmptyBag
  /\ resp = NoResp
  /\ rideEvents = [r \in RideIds |->
                     IF r <= Len(rides) /\ rides[r].status = "cancelled"
                       THEN [n |-> [NoEvents.n EXCEPT !["ride_cancelled"] = 1],
                             last |-> "ride_cancelled"]
                       ELSE NoEvents]
  /\ poolEvents = [r \in RideIds |-> IF r <= Len(rides) THEN <<"new_ride">> ELSE <<>>]
  /\ tracking = [o \in 1..MaxListed |-> IF o <= Len(orders) THEN <<"PENDING">> ELSE <<>>]
  /\ orderEvents = [o \in 1..MaxListed |-> <<>>]
  /\ newOrders = [i \in 1..Len(orders) |-> i]

NextAvailable ==
  \/ \E u \in Users : ListRides(u) \/ ListOrders(u)
  \/ ListOrdersPublic

SpecAvailable == InitAvailable /\ [][NextAvailable]_vars

\* ------------------------------------------------------------------------
\* The transaction helper (db: transaction)
\* ------------------------------------------------------------------------
\* what the helper leaves alone
appVars == <<rideVars, orderVars, liveVars, ratingVars, authVars, listVars, relayVars,
             chargerVars, req, resp>>

\* the outcomes of a statement sent to the store
StmtOutcomes == {"ok", "fail"}

TxStep(t, new) ==
  /\ txns' = [txns EXCEPT ![t] = new]
  /\ UNCHANGED appVars

\* ---- transaction(callback) is called
Transaction(t) ==
  /\ txns[t].pc = "idle"
  /\ TxStep(t, [txns[t] EXCEPT !.pc = "connect"])
  /\ UNCHANGED <<clients, committed>>

\* const client = await pool.connect(): waits for an idle client
PoolConnect(t) ==
  /\ txns[t].pc = "connect"
  /\ clients > 0
  /\ clients' = clients - 1
  /\ TxStep(t, [txns[t] EXCEPT !.pc = "begin"])
  /\ UNCHANGED committed

\* pool.connect() rejects (connectionTimeoutMillis, the store is unreachable):
\* the statement is outside the try, the caller gets the error
PoolConnectFail(t) ==
  /\ txns[t].pc = "connect"
  /\ TxStep(t, [txns[t] EXCEPT !.pc = "done", !.err = "connect", !.out = "thrown"])
  /\ UNCHANGED <<clients, committed>>

\* await client.query('BEGIN')
Begin(t, outcome) ==
  /\ txns[t].pc = "begin"
  /\ TxStep(t, IF outcome = "ok" THEN [txns[t] EXCEPT !.pc = "callback"]
               ELSE [txns[t] EXCEPT !.pc = "catch", !.err = "begin"])
  /\ UNCHANGED <<clients, committed>>

\* a statement of the callback writes through the client: the write is the
\* transaction's own until COMMIT
CallbackQuery(t) ==
  /\ txns[t].pc = "callback"
  /\ txns[t].writes < MaxWrites
  /\ TxStep(t, [txns[t] EXCEPT !.writes = @ + 1])
  /\ UNCHANGED <<clients, committed>>

\* const result = await callback(client): the callback resolves
CallbackReturn(t) ==
  /\ txns[t].pc = "callback"
  /\ TxStep(t, [txns[t] EXCEPT !.pc = "commit", !.cb = "returned"])
  /\ UNCHANGED <<clients, committed>>

\* the callback rejects
CallbackThrow(t) ==
  /\ txns[t].pc = "callback"
  /\ TxStep(t, [txns[t] EXCEPT !.pc = "catch", !.cb = "threw", !.err = "callback"])
  /\ UNCHANGED <<clients, committed>>

\* await client.query('COMMIT'); return result
Commit(t, outcome) ==
  /\ txns[t].pc = "commit"
  /\ IF outcome = "ok"
     THEN /\ committed' = [committed EXCEPT ![t] = txns[t].writes]
          /\ TxStep(t, [txns[t] EXCEPT !.pc = "finally", !.out = "returned"])
     ELSE /\ committed' = committed
          /\ TxStep(t, [txns[t] EXCEPT !.pc = "catch", !.err = "commit"])
  /\ UNCHANGED clients

\* catch (error) { await client.query('ROLLBACK'); throw error }: the store
\* drops the writes (committed stays as it is); when ROLLBACK rejects, its error leaves the catch block
\* in place of the caught one
Rollback(t, outcome) ==
  /\ txns[t].pc = "catch"
  /\ TxStep(t, [txns[t] EXCEPT !.pc = "finally", !.out = "thrown",
                               !.rollbacks = @ + 1,
                               !.err = IF outcome = "ok" THEN @ ELSE "rollback"])
  /\ UNCHANGED <<clients, committed>>

\* a helper that returns the client only after COMMIT
ReleaseOnReturn(t) ==
  /\ txns[t].pc = "finally"
  /\ clients' = IF txns[t].out = "returned" THEN clients + 1 ELSE clients
  /\ TxStep(t, [txns[t] EXCEPT !.pc = "done",
                               !.releases = IF txns[t].out = "returned" THEN @ + 1 ELSE @])
  /\ UNCHANGED committed

\* finally { client.release() }
Release(t) ==
  /\ txns[t].pc = "finally"
  /\ clients' = clients + 1
  /\ TxStep(t, [txns[t] EXCEPT !.pc = "done", !.releases = @ + 1])
  /\ UNCHANGED committed

NextTransaction ==
  \E t \in Txs :
    \/ Transaction(t) \/ PoolConnect(t) \/ PoolConnectFail(t)
    \/ \E outcome \in StmtOutcomes : Begin(t, outcome)
    \/ CallbackQuery(t) \/ CallbackReturn(t) \/ CallbackThrow(t)
    \/ \E outcome \in StmtOutcomes : Commit(t, outcome)
    \/ \E outcome \in StmtOutcomes : Rollback(t, outcome)
    \/ Release(t)

SpecTransaction == Init /\ [][NextTransaction]_vars

\* ------------------------------------------------------------------------
\* Charger applications (POST /users/apply-charger,
\* POST /admin/charger-applications/:id/review)
\* ------------------------------------------------------------------------
Admin == "admin"
\* prisma.user.count({ where: { isDeliverer: true } })
CurrentChargers == Cardinality({u \in Users : profiles[u].isDeliverer})
\* settings && currentChargers >= settings.maxChargers
AtCap == CurrentChargers >= settings.maxChargers

\* all but the charger columns, the settings and the handlers
restOfApp == <<rideVars, orderVars, liveVars, ratingVars, authVars, listVars, dbVars, relayVars>>

\* ---- POST /users/apply-charger (authMiddleware): prisma.user.findUnique and
\* the checks on the row; the handler keeps the row it read
ApplyCharger(u) ==
  /\ Arrives
  /\ IF profiles[u].chargerStatus = "approved" \/ profiles[u].isDeliverer
       THEN Reject("apply_charger", u, 0, "400_approved")
     ELSE IF profiles[u].chargerStatus = "pending"
       THEN Reject("apply_charger", u, 0, "400_pending")
     ELSE /\ req' = req (+) OneOf(HandlerWith("apply_charger", u, 0, "ac_count",
                       IF profiles[u].isVerified THEN "verified" ELSE "unverified"))
          /\ resp' = NoResp
  /\ UNCHANGED <<restOfApp, chargerVars>>

\* appSettings.findUnique, user.count, atCap and the choice of the branch
ApplyCount(h) ==
  /\ h.pc = "ac_count"
  /\ req' = (req (-) OneOf(h)) (+)
            OneOf([h EXCEPT !.pc = "ac_update",
                            !.arg = IF settings.autoApprove /\ h.arg = "verified" /\ ~AtCap
                                      THEN "approve" ELSE "review"])
  /\ resp' = NoResp
  /\ UNCHANGED <<restOfApp, chargerVars>>

\* prisma.user.update: chargerStatus 'approved' and isDeliverer, or
\* chargerStatus 'pending'
ApplyUpdate(h) ==
  /\ h.pc = "ac_update"
  /\ IF h.arg = "approve"
       THEN /\ profiles' = [profiles EXCEPT ![h.user].chargerStatus = "approved",
                                            ![h.user].isDeliverer = TRUE]
            /\ Finish(h, "approved")
       ELSE /\ profiles' = [profiles EXCEPT ![h.user].chargerStatus = "pending"]
            /\ Finish(h, "pending")
  /\ UNCHANGED <<restOfApp, settings>>

\* ---- POST /admin/charger-applications/:id/review with action 'approve'
\* (requireAdmin): appSettings.findUnique, user.count, 400 at the cap
ReviewApprove(u) ==
  /\ Arrives
  /\ IF AtCap THEN Reject("review", Admin, 0, "400_cap")
     ELSE /\ req' = req (+) OneOf(HandlerWith("review", Admin, 0, "rv_update", u))
          /\ resp' = NoResp
  /\ UNCHANGED <<restOfApp, chargerVars>>

\* prisma.user.update({ where: { id }, data: { chargerStatus: 'approved',
\* isDeliverer: true, isVerified: true } })
ReviewUpdate(h) ==
  /\ h.pc = "rv_update"
  /\ profiles' = [profiles EXCEPT ![h.arg].chargerStatus = "approved",
                                  ![h.arg].isDeliverer = TRUE, ![h.arg].isVerified = TRUE]
  /\ Finish(h, "ok")
  /\ UNCHANGED <<restOfApp, settings>>

\* ---- the review with action 'deny': one update
ReviewDeny(u) ==
  /\ profiles' = [profiles EXCEPT ![u].chargerStatus = "denied", ![u].isDeliverer = FALSE]
  /\ Reject("review", Admin, 0, "ok")
  /\ UNCHANGED <<restOfApp, settings>>

\* No charger yet; some users are verified, and applications are approved
\* automatically or wait for the review.
InitChargers ==
  /\ IdleLive
  /\ NoRatings
  /\ QuietServices
  /\ \E verified \in SUBSET Users, auto \in BOOLEAN :
       /\ profiles = [u \in Users |-> [isDeliverer |-> FALSE, isVerified |-> u \in verified,
                                       chargerStatus |-> "none"]]
       /\ settings = [maxChargers |-> MaxChargers, autoApprove |-> auto]
  /\ rides = <<>>
  /\ stats = [u \in Users |-> [total_rides_requested |-> 0, total_rides_given |-> 0,
                               total_earnings |-> 0]]
  /\ req = EmptyBag
  /\ resp = NoResp
  /\ rideEvents = [r \in RideIds |-> NoEvents]
  /\ poolEvents = [r \in RideIds |-> <<>>]
  /\ orders = <<>>
  /\ tracking = [o \in OrderIds |-> <<>>]
  /\ orderEvents = [o \in OrderIds |-> <<>>]
  /\ newOrders = <<>>

NextChargers ==
  \/ \E u \in Users : ApplyCharger(u) \/ ReviewApprove(u) \/ ReviewDeny(u)
  \/ \E h \in InFlight : ApplyCount(h) \/ ApplyUpdate(h) \/ ReviewUpdate(h)

SpecChargers == InitChargers /\ [][NextChargers]_vars

\* ------------------------------------------------------------------------
\* The claims about rides
\* ------------------------------------------------------------------------
\* this step answered a request with a
Answered(a) == resp' = a /\ (resp # a \/ req' # req)
\* this step started handler h, which suspended at its next statement
Entered(h) == CopiesIn(h, req') > CopiesIn(h, req)
AdvanceOps == {"arriving", "start", "complete"}
WritePc(op) ==
  CASE op = "arriving" -> "arr_write" [] op = "start" -> "sta_write" [] op = "complete" -> "cmp_ride"

\* C1: of the accept calls on one pending ride exactly one succeeds: the call
\* that is answered "ok" is the only one for that ride (its ride_accepted is
\* the single one emitted) and its caller is the ride's driver_id, which no
\* later step changes; every other call is answered 'Ride is no longer
\* available', changes nothing, and is answered so only once a winner has
\* committed.
C1_AcceptExactlyOne ==
  [][\A u \in Users, r \in RideIds :
       /\ Answered(Answer("accept", u, r, "ok")) =>
            /\ rides'[r].driver_id = u
            /\ rideEvents'[r].n["ride_accepted"] = 1
       /\ (Answered(Answer("accept", u, r, "ride_unavailable")) /\ HasRide(r)) =>
            /\ rides[r].driver_id # NoUser
            /\ rides[r].status # "pending"
            /\ rides' = rides
       /\ (HasRide(r) /\ rides[r].driver_id # NoUser) =>
            rides'[r].driver_id = rides[r].driver_id
    ]_vars

\* two drivers accepted the same pending ride at the same time: the loser is
\* answered while the winner has committed and not yet answered
C1_Witness ==
  \E h \in InFlight, u \in Deliverers :
    /\ h.op = "accept" /\ h.pc = "acc_emit" /\ u # h.user
    /\ rides[h.id].driver_id = h.user
    /\ resp = Answer("accept", u, h.id, "ride_unavailable")

\* the ride state diagram of the specification: the legal predecessors of the
\* state each advance operation moves to
DiagramFrom(op) ==
  CASE op = "arriving" -> {"accepted"}
    [] op = "start" -> {"arriving"}
    [] op = "complete" -> {"in_progress"}
\* the predecessors the handlers check for
HandlerFrom(op) ==
  CASE op = "arriving" -> ArrivingFrom
    [] op = "start" -> StartFrom
    [] op = "complete" -> CompleteFrom

\* An advance call by the assigned driver that reads a status outside
\* from(op) is answered 400, never reaches its UPDATE and changes neither
\* the row nor the events.
AdvanceGuarded(from(_)) ==
     \A op \in AdvanceOps, u \in Users, r \in RideIds :
       /\ Entered(Handler(op, u, r, WritePc(op))) =>
            /\ AssignedRide(r, u)
            /\ rides[r].status \in from(op)
       /\ (\E res \in {"403_deliverer", "404_not_assigned", "400_status"} :
             Answered(Answer(op, u, r, res))) =>
            /\ rides' = rides /\ rideEvents' = rideEvents /\ poolEvents' = poolEvents
            /\ (AssignedRide(r, u) /\ u \in Deliverers) =>
                 /\ resp'.res = "400_status"
                 /\ rides[r].status \notin from(op)

RideTerminal == {"completed", "cancelled"}
RideEdges ==
  {<<"pending", "accepted">>, <<"accepted", "arriving">>, <<"arriving", "in_progress">>,
   <<"accepted", "in_progress">>, <<"in_progress", "completed">>}
    \cup {<<s, "cancelled">> : s \in RideStatuses \ RideTerminal}

\* C6: under every interleaving the stored status of a ride only moves along
\* the edges of the ride diagram: it skips no state and never moves backwards.
C6_StatusFollowsDiagram ==
  [][\A r \in 1..Len(rides) :
       rides'[r].status # rides[r].status =>
         <<rides[r].status, rides'[r].status>> \in RideEdges]_vars

\* C7: total_rides_given and total_earnings of a driver are incremented
\* exactly once per ride the driver completed.
CompletedBy(d) == {r \in 1..Len(rides) : rides[r].driver_id = d /\ rides[r].completed_at # 0}
C7_CreditedOncePerRide ==
  \A d \in Users :
    /\ stats[d].total_rides_given = Cardinality(CompletedBy(d))
    /\ stats[d].total_earnings = FallbackFee * Cardinality(CompletedBy(d))

\* C8: a ride whose stored status is completed or cancelled never changes
\* status again.
C8_TerminalIsFinal ==
  [][\A r \in 1..Len(rides) :
       rides[r].status \in RideTerminal => rides'[r].status = rides[r].status]_vars

\* C10: every driver is the driver_id of at most one ride whose status is
\* accepted, arriving or in_progress.
ActiveRidesOf(d) ==
  {r \in 1..Len(rides) : rides[r].driver_id = d /\ rides[r].status \in DriverActive}
C10_OneActiveRidePerDriver == \A d \in Users : Cardinality(ActiveRidesOf(d)) <= 1

\* C11: every rider is the rider_id of at most one ride whose status is
\* pending, accepted, arriving or in_progress, also when the same rider
\* submits two ride requests at the same time.
OpenRidesOf(u) ==
  {r \in 1..Len(rides) : rides[r].rider_id = u /\ rides[r].status \in RiderActive}
C11_OneOpenRidePerRider == \A u \in Users : Cardinality(OpenRidesOf(u)) <= 1

\* the rides that driver d is credited for as far as the stored status tells
ShownCompleted(d) ==
  {r \in 1..Len(rides) : rides[r].driver_id = d /\ rides[r].status = "completed"}

RECURSIVE CompletionsOf(_, _, _)
\* the number of completion writes stored in the first n rows of table t for
\* driver d
CompletionsOf(t, d, n) ==
  IF n = 0 THEN 0
  ELSE CompletionsOf(t, d, n - 1) + (IF t[n].driver_id = d THEN t[n].completed_at ELSE 0)

C13_DriverAssignedOnce ==
  [][\A r \in 1..Len(rides) :
       /\ rides[r].status = "pending" => rides[r].driver_id = NoUser
       /\ rides'[r].status = "pending" => rides'[r].driver_id = NoUser
       /\ rides[r].driver_id # NoUser => rides'[r].driver_id = rides[r].driver_id
    ]_vars

\* the ride has a driver and has moved on, and the accept of another driver
\* has just been refused
C13_Witness ==
  \E u \in Deliverers :
    /\ resp = Answer("accept", u, 1, "ride_unavailable")
    /\ rides[1].driver_id \notin {NoUser, u}
    /\ rides[1].status \in {"arriving", "in_progress", "completed", "cancelled"}

\* ------------------------------------------------------------------------
\* The claims about orders
\* ------------------------------------------------------------------------
\* the number of order-update events of order o that carry status t
Notified(o, t) == Cardinality({i \in 1..Len(orderEvents[o]) : orderEvents[o][i] = t})

\* C2: of the accept calls on one PENDING order exactly one succeeds: the
\* call that is answered "ok" is the only one for that order (its ACCEPTED
\* order-update is the single one emitted) and its caller is the order's
\* delivererId, which no later step changes; every other call by a deliverer
\* fails, changes nothing, and fails only once a winner has written.
C2_OrderAcceptExactlyOne ==
  [][\A u \in Users, o \in OrderIds :
       /\ Answered(Answer("order_accept", u, o, "ok")) =>
            /\ orders'[o].delivererId = u
            /\ Notified(o, "ACCEPTED")' = 1
       /\ (Answered(Answer("order_accept", u, o, "error_no_record")) /\ HasOrder(o)) =>
            /\ orders[o].delivererId # NoUser
            /\ orders[o].status # "PENDING"
            /\ orders' = orders
       /\ (HasOrder(o) /\ orders[o].delivererId # NoUser) =>
            orders'[o].delivererId = orders[o].delivererId
    ]_vars

\* two deliverers accepted the same PENDING order at the same time: the loser
\* has failed while the winner has written and not yet answered
C2_Witness ==
  \E h \in InFlight, u \in Deliverers :
    /\ h.op = "order_accept" /\ h.pc = "oa_track" /\ u # h.user
    /\ orders[h.id].delivererId = h.user
    /\ resp = Answer("order_accept", u, h.id, "error_no_record")

\* the accept-public calls on order o that have passed the PENDING check
PastCheck(o) == {h \in InFlight : h.op = "accept_public" /\ h.id = o}

\* C3: the read-check-write of accept-public is one atomic unit: at no time
\* have two accept-public calls on the same order both passed the check that
\* the order is PENDING, so at most one of them succeeds.
C3_AcceptPublicAtomic ==
  \A o \in OrderIds : BagCardinality([h \in PastCheck(o) |-> req[h]]) <= 1

\* the order state diagram.  PICKING_UP, which the diagram of the
\* specification does not name, is granted as a state between ACCEPTED and
\* PICKED_UP; DELIVERING is the diagram's on_the_way.
OrderTerminal == {"DELIVERED", "CANCELLED"}
OrderEdges ==
  {<<"PENDING", "ACCEPTED">>, <<"ACCEPTED", "PICKING_UP">>, <<"PICKING_UP", "PICKED_UP">>,
   <<"ACCEPTED", "PICKED_UP">>, <<"PICKED_UP", "DELIVERING">>, <<"DELIVERING", "DELIVERED">>}
    \cup {<<s, "CANCELLED">> : s \in OrderStatuses \ OrderTerminal}

\* C5: a call of /status or /status-public with target t on an order whose
\* status is not a legal predecessor of t fails and leaves the order
\* unchanged: no such call gets past its update.
C5_StatusOnlyAlongDiagram ==
  [][\A op \in {"status", "status_public"}, u \in Users \cup {NoUser},
        o \in OrderIds, t \in OrderStatuses :
       Entered(HandlerWith(op, u, o, "os_track", t)) =>
         <<orders[o].status, t>> \in OrderEdges]_vars

\* C9: an order whose stored status is DELIVERED or CANCELLED never changes
\* status again, whichever operation is called.
C9_OrderTerminalIsFinal ==
  [][\A o \in 1..Len(orders) :
       orders[o].status \in OrderTerminal => orders'[o].status = orders[o].status]_vars

\* C14: an order whose status is PENDING has no delivererId, and once an
\* accept has set delivererId no step of the status and accept routes assigns
\* a different deliverer to the order.
C14_DelivererAssignedOnce ==
  [][\A o \in 1..Len(orders) :
       /\ orders'[o].status = "PENDING" => orders'[o].delivererId = NoUser
       /\ orders[o].delivererId # NoUser => orders'[o].delivererId = orders[o].delivererId
    ]_vars

\* C20: the statuses of the orderTracking rows of an order, read in creation
\* order, are a path through the order state diagram that starts at PENDING.
C20_HistoryIsPath ==
  \A o \in OrderIds :
    /\ tracking[o] # <<>> => tracking[o][1] = "PENDING"
    /\ \A i \in 1..(Len(tracking[o]) - 1) :
         <<tracking[o][i], tracking[o][i + 1]>> \in OrderEdges

\* C21: whenever no request is in flight, the orderTracking row created last
\* for an order carries the order's stored status.
C21_LastHistoryIsStatus ==
  req = EmptyBag =>
    \A o \in 1..Len(orders) :
      /\ tracking[o] # <<>>
      /\ tracking[o][Len(tracking[o])] = orders[o].status

\* C22: a lifecycle timestamp never changes once it is set: accepted_at,
\* started_at and completed_at of a ride, pickedUpAt and deliveredAt of an
\* order.
C22_TimestampsSetOnce ==
  [][/\ \A r \in 1..Len(rides) :
          /\ rides[r].accepted_at # 0 => rides'[r].accepted_at = rides[r].accepted_at
          /\ rides[r].started_at # 0 => rides'[r].started_at = rides[r].started_at
          /\ rides[r].completed_at # 0 => rides'[r].completed_at = rides[r].completed_at
     /\ \A o \in 1..Len(orders) :
          /\ orders[o].pickedUpAt # 0 => orders'[o].pickedUpAt = orders[o].pickedUpAt
          /\ orders[o].deliveredAt # 0 => orders'[o].deliveredAt = orders[o].deliveredAt
    ]_vars

\* C23: a status advance gets past its checks only when the caller is the
\* assigned driver of the ride (arriving, start, complete) or the assigned
\* deliverer of the order (POST /orders/:id/status); any other caller is
\* rejected and the ride or order is left unchanged.
C23_AdvanceOnlyByAssignee ==
  [][/\ \A op \in AdvanceOps, u \in Users, r \in RideIds :
          Entered(Handler(op, u, r, WritePc(op))) => AssignedRide(r, u)
     /\ \A u \in Users, o \in OrderIds, t \in OrderStatuses :
          Entered(HandlerWith("status", u, o, "os_track", t)) =>
            (HasOrder(o) /\ orders[o].delivererId = u)
    ]_vars

\* C24: a cancel gets past its checks only for the rider or the driver of the
\* ride, a cancel by any other user is answered 403 and changes nothing, and
\* a ride whose cancelled_by is set has the rider or the driver in it and has
\* status cancelled.
C24_CancelOnlyByParty ==
  [][/\ \A u \in Users, r \in RideIds :
          /\ Entered(Handler("cancel", u, r, "can_write")) => RideParty(r, u)
          /\ (HasRide(r) /\ ~RideParty(r, u)) =>
               ~(\E res \in {"ok", "400_status"} : Answered(Answer("cancel", u, r, res)))
          /\ Answered(Answer("cancel", u, r, "403_not_party")) => rides' = rides
     /\ \A r \in 1..Len(rides') :
          rides'[r].cancelled_by # NoUser =>
            /\ rides'[r].cancelled_by \in {rides'[r].rider_id, rides'[r].driver_id}
            /\ rides'[r].status = "cancelled"
    ]_vars

\* the event a ride operation publishes on ride:<id> when it succeeds
RideEventOf(op) ==
  CASE op = "accept" -> "ride_accepted" [] op = "arriving" -> "driver_arriving"
    [] op = "start" -> "ride_started" [] op = "complete" -> "ride_completed"
    [] op = "cancel" -> "ride_cancelled"
RideOps == {"accept", "arriving", "start", "complete", "cancel"}
\* this step published exactly one event, name, on ride:<r>
PublishedOne(r, name) ==
  /\ rideEvents'[r].n = [rideEvents[r].n EXCEPT ![name] = @ + 1]
  /\ \A q \in RideIds \ {r} : rideEvents'[q] = rideEvents[q]
\* the number of ride_taken events the drivers pool got for ride r
RideTaken(r) == Cardinality({i \in 1..Len(poolEvents[r]) : poolEvents[r][i] = "ride_taken"})

Got(name, id) == {c \in Conns : <<name, id>> \in inbox'[c]}

\* C26: the new-order event of an order reaches exactly the sockets that are
\* in room deliverers when it is published, the new_ride event of a ride
\* exactly the sockets that are in room drivers, and only the sockets of
\* authenticated deliverers are ever in these rooms.
C26_NewRequestToPoolOnly ==
  [][/\ \A o \in OrderIds :
          newOrders' = Append(newOrders, o) => Got("new-order", o) = InRoom(DeliverersRoom)
     /\ \A r \in RideIds :
          poolEvents'[r] = Append(poolEvents[r], "new_ride") =>
            Got("new_ride", r) = InRoom(DriversRoom)
     /\ \A c \in Conns :
          (conns'[c].rooms \cap {DeliverersRoom, DriversRoom} # {}) =>
            (conns'[c].open /\ conns'[c].user \in Deliverers)
    ]_vars

\* user u has an order or a ride that is not in a terminal state
Engaged(u) ==
  \/ \E o \in 1..Len(orders) : orders[o].customerId = u /\ orders[o].status \notin OrderTerminal
  \/ \E r \in 1..Len(rides) : rides[r].rider_id = u /\ rides[r].status \notin RideTerminal

\* C28: while a user has an order or a ride that is not terminal, no request
\* of that user gets past the check for an active engagement, and no order
\* and no ride of that user is created.
C28_OneEngagementPerUser ==
  [][\A u \in Users :
       Engaged(u) =>
         /\ ~Entered(Handler("request", u, 0, "req_insert"))
         /\ ~(Len(orders') > Len(orders) /\ orders'[Len(orders')].customerId = u)
         /\ ~(Len(rides') > Len(rides) /\ rides'[Len(rides')].rider_id = u)
    ]_vars

\* C29: the step that completes a ride adds exactly the ride's stored
\* ride_fee to the driver's total_earnings, whatever the fee is.
C29_CreditEqualsStoredFee ==
  [][\A u \in Users, r \in RideIds :
       Answered(Answer("complete", u, r, "ok")) =>
         stats'[u].total_earnings = stats[u].total_earnings + rides[r].ride_fee
    ]_vars

\* the lifecycle event that announces a status; none announces pending
StatusEvent(st) ==
  CASE st = "pending" -> "none" [] st = "accepted" -> "ride_accepted"
    [] st = "arriving" -> "driver_arriving" [] st = "in_progress" -> "ride_started"
    [] st = "completed" -> "ride_completed" [] st = "cancelled" -> "ride_cancelled"

\* C36: when no request is in flight, the last event published on ride:<id>
\* is the one that announces the stored status of the ride.
C36_LastEventIsStatus ==
  req = EmptyBag =>
    \A r \in 1..Len(rides) : rideEvents[r].last = StatusEvent(rides[r].status)

\* ------------------------------------------------------------------------
\* The claims about topics
\* ------------------------------------------------------------------------
\* socket c becomes a member of room in this step
Joins(c, room) == room \in conns'[c].rooms /\ room \notin conns[c].rooms
\* the subscribe handler that this step completes for socket c
Completes(op, c, id) ==
  \E h \in InFlight :
    /\ h.op = op /\ h.arg = c /\ h.id = id
    /\ h.user = conns[c].user /\ h.user # NoUser
    /\ CopiesIn(h, req') < CopiesIn(h, req)

\* C15: a socket becomes a member of order:X or ride:X only by completing a
\* subscribe request for X, and a subscribe request gets past its query only
\* when the socket's authenticated user is, at that moment, the customer or
\* the deliverer of the order (the rider or the driver of the ride); a
\* subscribe by an unrelated user or by an unauthenticated socket changes no
\* membership.
C15_MemberOnlyIfParty ==
  [][/\ \A c \in Conns, o \in OrderIds :
          Joins(c, OrderTopic(o)) => Completes("subscribe_order", c, o)
     /\ \A c \in Conns, r \in RideIds :
          Joins(c, RideTopic(r)) => Completes("subscribe_ride", c, r)
     /\ \A h \in BagToSet(req') :
          Entered(h) =>
            /\ h.op = "subscribe_order" =>
                 conns[h.arg].user = h.user /\ h.user # NoUser /\ OrderParty(h.id, h.user)
            /\ h.op = "subscribe_ride" =>
                 conns[h.arg].user = h.user /\ h.user # NoUser /\ RideParty(h.id, h.user)
     /\ \A op \in {"subscribe_order", "subscribe_ride"}, u \in Users \cup {NoUser}, id \in {1} :
          (Answered(Answer(op, u, id, "error_not_authorized")) \/
           Answered(Answer(op, u, id, "ignored"))) => conns' = conns
    ]_vars

\* the deliverer who accepted the order is a member of its topic, and the
\* subscribe of a user who is no party of the order has just been refused
C15_Witness ==
  \E c \in Conns, u \in Users :
    /\ OrderTopic(1) \in conns[c].rooms
    /\ conns[c].user = orders[1].delivererId
    /\ ~OrderParty(1, u)
    /\ resp = Answer("subscribe_order", u, 1, "error_not_authorized")

\* C16: whenever an order route emits the order-update of a transition, every
\* socket that is subscribed to the order's topic through subscribe_order at
\* that moment receives it.
C16_SubscribersReceiveUpdate ==
  [][\A o \in OrderIds :
       orderEvents'[o] # orderEvents[o] =>
         Receivers(OrderTopic(o)) \subseteq Receivers(OrderUpdateRoom(o))]_vars

\* the reporter of the last sample of a sequence
LastOf(seq) == seq[Len(seq)]

\* C17: a location sample of order X is stored or broadcast only in a step
\* in which its reporter is X's deliverer and X's status is accepted,
\* picked_up or on_the_way.
C17_LocationOnlyWhileActive ==
  [][\A o \in OrderIds :
       /\ locations'[o] # locations[o] => ActiveAssignee(o, LastOf(locations'[o]))
       /\ casts'[o] # casts[o] => ActiveAssignee(o, LastOf(casts'[o]))]_vars

\* C27: a subscribe_order or subscribe_ride request of a socket whose user
\* is not a party to the order or ride never gets past the query and is never
\* left without an answer: the only outcome is the error event.
C27_NonPartySubscribeRejected ==
  [][/\ \A c \in Conns, o \in OrderIds :
          ~OrderParty(o, conns[c].user) =>
            /\ ~Entered(HandlerWith("subscribe_order", conns[c].user, o, "so_join", c))
            /\ ~Answered(Answer("subscribe_order", conns[c].user, o, "ignored"))
     /\ \A c \in Conns, r \in RideIds :
          ~RideParty(r, conns[c].user) =>
            /\ ~Entered(HandlerWith("subscribe_ride", conns[c].user, r, "sr_join", c))
            /\ ~Answered(Answer("subscribe_ride", conns[c].user, r, "ignored"))
    ]_vars

QueryOps == {"get_location", "get_history"}
ReadPc(op) == IF op = "get_location" THEN "gl_read" ELSE "gh_read"

\* C31: a location query gets past its check only when the caller is the
\* customer or the deliverer of the order; for any other caller, and for an
\* order that does not exist, it is answered 403 at once; data is returned
\* only by a query that got past the check; and no step of a location query
\* changes the store.
C31_LocationOnlyToParty ==
  [][\A op \in QueryOps, u \in Users, o \in QueryIds :
       /\ Entered(Handler(op, u, o, ReadPc(op))) => OrderParty(o, u)
       /\ \A res \in {"location", "null", "locations"} :
            Answered(Answer(op, u, o, res)) => Handler(op, u, o, ReadPc(op)) \in InFlight
       /\ (Entered(Handler(op, u, o, ReadPc(op))) \/
           (\E res \in {"location", "null", "locations", "403_not_authorized"} :
              Answered(Answer(op, u, o, res)))) =>
            UNCHANGED <<rideVars, orderVars, liveVars, ratingVars, serviceVars>>
    ]_vars

\* user u3, who is no party of order 1, is answered 403 while a query of a
\* party is in flight and a sample is stored
C31_Witness ==
  /\ resp = Answer("get_history", "u3", 1, "403_not_authorized")
  /\ ~OrderParty(1, "u3")
  /\ locations[1] # <<>>
  /\ \E h \in InFlight : h.op = "get_location"

\* this step published an event on topic t
PublishedOn(t) ==
  \/ \E r \in RideIds : t = RideTopic(r) /\ rideEvents'[r] # rideEvents[r]
  \/ \E o \in OrderIds : t = OrderTopic(o) /\ casts'[o] # casts[o]

\* C35: the number of events a socket was sent on a topic grows only in a
\* step that publishes on that topic, only by one, and only if the socket is
\* in the topic's room when the step is taken; so a second subscribe adds no
\* delivery, and a subscribe after the publish brings no event.
C35_AtMostOncePerMember ==
  [][\A c \in Conns, t \in Topics :
       received'[c][t] > received[c][t] =>
         /\ received'[c][t] = received[c][t] + 1
         /\ PublishedOn(t)
         /\ t \in conns[c].rooms
    ]_vars

\* ride 1 has published ride_accepted; the rider's socket, subscribed before,
\* was sent it once, and the socket of the driver, subscribed after, was not
C35_Witness ==
  \E c1, c2 \in Conns :
    /\ RideTopic(1) \in conns[c1].rooms /\ RideTopic(1) \in conns[c2].rooms
    /\ conns[c1].user = rides[1].rider_id /\ conns[c2].user = rides[1].driver_id
    /\ rideEvents[1].n["ride_accepted"] = 1
    /\ received[c1][RideTopic(1)] = 1
    /\ received[c2][RideTopic(1)] = 0

\* ------------------------------------------------------------------------
\* The claims about ratings
\* ------------------------------------------------------------------------
\* the rows of seq that rater gave rated for order o
SameTriple(seq, o, rater, rated) ==
  {i \in 1..Len(seq) : seq[i].order = o /\ seq[i].rater = rater /\ seq[i].rated = rated}

\* C18: for every order, rater and rated user at most one rating is stored,
\* whether it was created through POST /ratings/order/:orderId or through
\* POST /users/rate, also when two rating requests are in flight together.
C18_OneRatingPerTriple ==
  \A o \in 1..Len(orders), rater \in Users, rated \in Users :
    /\ Cardinality(SameTriple(ratings, o, rater, rated)) <= 1
    /\ Cardinality(SameTriple(prismaRatings, o, rater, rated)) <= 1

\* C19: when no rating creation is in flight, avg_rating and total_ratings of
\* every user are the average and the number of the ratings stored for that
\* user.
C19_AverageOverStoredRatings ==
  req = EmptyBag =>
    \A u \in Users :
      /\ userRows[u].total_ratings = CountFor(ratings, u)
      /\ userRows[u].avg_rating =
           Hundredths(SumFor(ratings, u, Len(ratings)), CountFor(ratings, u))

\* row is a rating of a delivered order, given by its customer to its
\* deliverer or by its deliverer to its customer
ProperRating(row) ==
  /\ HasOrder(row.order)
  /\ orders[row.order].status = "DELIVERED"
  /\ \/ row.rater = orders[row.order].customerId /\ row.rated = orders[row.order].delivererId
     \/ row.rater = orders[row.order].delivererId /\ row.rated = orders[row.order].customerId

\* C30: every stored rating, whichever route created it, is a rating of a
\* delivered order by one of its two parties for the other one.
C30_RatingsOfDeliveredByParty ==
  /\ \A i \in 1..Len(ratings) : ProperRating(ratings[i])
  /\ \A i \in 1..Len(prismaRatings) : ProperRating(prismaRatings[i])

\* ------------------------------------------------------------------------
\* The claims about accounts and codes
\* ------------------------------------------------------------------------
\* C32: no verification code and no reset code redeems more than one
\* request, and a redeem request gets past its checks only with the code that
\* is stored for its email at that moment (the one issued last) and only
\* while that code has not expired.
C32_CodesSingleUse ==
  [][/\ \A k \in CodeKinds, c \in Codes : redeemed'[k][c] <= 1
     /\ \A e \in Emails, c \in Codes :
          /\ Entered(AuthHandler("verify", e, "vf_update", c)) =>
               (verificationCodes[e].code = c /\ ~Expired(verificationCodes[e]))
          /\ Entered(AuthHandler("reset_password", e, "rp_update", c)) =>
               (resetCodes[e].code = c /\ ~Expired(resetCodes[e]))
    ]_vars

\* the operations that call the mail service, and the statement at which
\* each of them learns or ignores the outcome
MailOps == {"register", "send_code", "resend_code", "verify", "forgot_password"}
MailPc(op) ==
  CASE op = "register" -> "rg_code" [] op = "send_code" -> "sc_mail"
    [] op = "resend_code" -> "rs_set" [] op = "verify" -> "vf_update"
    [] op = "forgot_password" -> "fp_mail"
\* this step ended handler h
Ended(h) == CopiesIn(h, req') < CopiesIn(h, req)

\* C34: when the mail service fails, the operation that called it still
\* answers with its success result, and its state change stays: the code
\* that register and resend-code store with the call is stored, the failure
\* removes no code that send-code or forgot-password stored before the
\* call, and the user that verify verified is verified.
C34_MailFailureNeverFails ==
  [][\A op \in MailOps, e \in Emails, c \in 0..MaxCodes :
       (Ended(AuthHandler(op, e, MailPc(op), c)) /\ mailed' = "failed") =>
         /\ resp' = Answer(op, e, 0, "ok")
         /\ op \in {"register", "resend_code"} => verificationCodes'[e] # NoCode
         /\ op \in {"send_code", "forgot_password"} =>
              (verificationCodes' = verificationCodes /\ resetCodes' = resetCodes)
         /\ op = "verify" => accounts'[e].isVerified
    ]_vars

\* ------------------------------------------------------------------------
\* The claims about the lists
\* ------------------------------------------------------------------------
\* the pending rides that are not u's own, oldest first
PendingRidesFor(u) ==
  Ascending({r \in 1..Len(rides) : rides[r].status = "pending" /\ rides[r].rider_id # u})
\* the pending orders that are not u's own, oldest first
PendingOrdersFor(u) ==
  Ascending({o \in 1..Len(orders) : orders[o].status = "PENDING" /\ orders[o].customerId # u})

\* C33: each of the three list routes answers with all pending rides (orders)
\* that the caller does not own, and only those, oldest first.
C33_AvailableOldestFirst ==
  [][/\ \A u \in Users :
          /\ Answered(Answer("available_rides", u, 0, "ok")) => listing' = PendingRidesFor(u)
          /\ Answered(Answer("available_orders", u, 0, "ok")) => listing' = PendingOrdersFor(u)
     /\ Answered(Answer("available_public", NoUser, 0, "ok")) =>
          listing' = PendingOrdersFor(NoUser)
    ]_vars

\* ------------------------------------------------------------------------
\* The claims about the transaction helper
\* ------------------------------------------------------------------------
\* invocation t took a client from the pool
TookClient(t) == txns[t].pc \in {"begin", "callback", "commit", "catch", "finally"}
                 \/ (txns[t].pc = "done" /\ txns[t].err # "connect")

\* the client is released once by the end of an invocation that took one, and
\* never before or twice; the store holds writes of a callback only if the
\* callback returned
ReleasedOnceAllOrNothing(t) ==
  /\ txns[t].releases = (IF txns[t].pc = "done" /\ TookClient(t) THEN 1 ELSE 0)
  /\ clients + Cardinality({x \in Txs : TookClient(x) /\ txns[x].pc # "done"}) = MaxClients
  /\ committed[t] > 0 => txns[t].cb = "returned" /\ txns[t].out = "returned"

\* C37: every invocation that took a client releases it exactly once on
\* every path; writes are committed only if the callback returned; after a
\* callback error ROLLBACK was issued, the caller was thrown that error and
\* none of the callback's writes is applied.
C37_ReleaseOnceRethrow ==
  \A t \in Txs :
    /\ ReleasedOnceAllOrNothing(t)
    /\ txns[t].pc = "done" /\ txns[t].cb = "threw" =>
         /\ txns[t].rollbacks = 1
         /\ txns[t].out = "thrown" /\ txns[t].err = "callback"
         /\ committed[t] = 0

\* C37, amended: as above, but the error thrown to the caller after a
\* callback error is the callback's, or that of ROLLBACK when ROLLBACK fails.
C37_ReleaseOnceThrow ==
  \A t \in Txs :
    /\ ReleasedOnceAllOrNothing(t)
    /\ txns[t].pc = "done" /\ txns[t].cb = "threw" =>
         /\ txns[t].rollbacks = 1
         /\ txns[t].out = "thrown" /\ txns[t].err \in {"callback", "rollback"}
         /\ committed[t] = 0

\* one invocation committed its writes, the other ended on a callback error
\* after writing; both released their client
C37_Witness ==
  \E t, x \in Txs :
    /\ txns[t].pc = "done" /\ committed[t] = MaxWrites /\ txns[t].releases = 1
    /\ txns[x].pc = "done" /\ txns[x].cb = "threw" /\ txns[x].rollbacks = 1
    /\ txns[x].writes > 0 /\ txns[x].releases = 1 /\ committed[x] = 0

\* ------------------------------------------------------------------------
\* The claims about assignment
\* ------------------------------------------------------------------------
\* C38: no ride has its rider as driver and no order has its customer as
\* deliverer.
C38_AssigneeNotRequester ==
  /\ \A r \in 1..Len(rides) : rides[r].driver_id # rides[r].rider_id
  /\ \A o \in 1..Len(orders) : orders[o].delivererId # orders[o].customerId

\* ------------------------------------------------------------------------
\* The claims about relayed events
\* ------------------------------------------------------------------------
\* C39: an event sent to room order:<id> by a socket handler comes from a
\* party to the order, and a status_updated reports the status the stored
\* order has; an order-update is emitted by the request of a party and carries
\* the status that request wrote.
C39_EventsOnlyFromParty ==
  [][\A o \in OrderIds :
       /\ notices'[o] # notices[o] =>
            LET e == notices'[o][Len(notices'[o])]
            IN /\ OrderParty(o, e.by)
               /\ e.name = "status_updated" => orders[o].status = e.status
       /\ orderEvents'[o] # orderEvents[o] =>
            \E h \in InFlight :
              /\ Ended(h) /\ h.id = o /\ OrderParty(o, h.user)
              /\ h.op \in {"status", "status_public"} =>
                   h.arg = orderEvents'[o][Len(orderEvents'[o])]
    ]_vars

\* ------------------------------------------------------------------------
\* The claims about charger applications
\* ------------------------------------------------------------------------
\* C40: the number of users with isDeliverer = true never exceeds
\* maxChargers.
C40_ChargersWithinCap == CurrentChargers <= settings.maxChargers

====
